---- MODULE Spec2Model ----
(***************************************************************************)
(* State machine of the Application State Store of the restaurant ordering *)
(* client (context/RestaurantContext.tsx): session resolution from the     *)
(* URL, cart, order placement, tenant switch, the staff order list with    *)
(* optimistic status updates, pagination and the realtime subscription,    *)
(* over a model of the hosted backend's tables.                            *)
(*                                                                         *)
(* Every async function is a task with a program position; one action is  *)
(* the arrival of one awaited backend response together with the code that *)
(* runs up to the next await.  A backend request takes effect at the step  *)
(* that delivers its response.                                             *)
(***************************************************************************)
EXTENDS Integers, Sequences, FiniteSets, TLC

\* ------------------------------------------------------------------ bounds
MaxQty == 2            \* largest quantity a cart line is driven to
MaxOrders == 1         \* orders a customer session places
MaxUpdateCalls == 1    \* updateOrderStatus calls in flight at once
MaxFetchCalls == 2     \* fetchOrders requests in flight at once
MaxQueue == 1          \* realtime events waiting for delivery
MaxStored == 45
MaxMenuCalls == 2      \* fetchMenu requests in flight
MaxMenuWrites == 2     \* menu writes (deleteMenuItem, replaceMenu) of a session

\* --------------------------------------------------------------- constants
PageSize == 20         \* ordersApi.getActiveOrders(currentRestaurant.id, page, 20)
TaxPercent == 5        \* const tax = subtotal * 0.05
Unit == 10000          \* amounts are integers counting 1/10000 of a currency unit

\* ------------------------------------------------------------------ values
NULL == "NULL"                 \* null of a string-valued field
Null == [null |-> TRUE]        \* null of an object-valued field
Idle == [pc |-> "idle"]        \* a free task slot

PENDING == "PENDING"
PREPARING == "PREPARING"
PAID == "PAID"

\* The restaurants table (read-only here): id -> row.
dbRestaurants ==
    [r \in {"R1", "R2"} |-> [id |-> r, name |-> "Kitchen " \o r]]

\* Ids handed to switchRestaurant by the store's consumers: another restaurant
\* and an id that has no row.
SwitchTargets == {"R2", "R9"}

\* MenuItem objects the customer view hands to addToCart.
Menu ==
    { [id |-> "A", price |-> 100 * Unit, inStock |-> TRUE],
      [id |-> "B", price |-> 50 * Unit, inStock |-> TRUE],
      [id |-> "C", price |-> 20 * Unit, inStock |-> FALSE] }

\* Page locations: the search query and the query embedded in the hash.
\* A query carries any of the parameters rid, table, tableId and tableNo.
NoParams == [rid |-> NULL, table |-> NULL, tableId |-> NULL, tableNo |-> NULL]
Locations ==
    { [search |-> NoParams, hash |-> NoParams],
      [search |-> [NoParams EXCEPT !.rid = "R1", !.table = "5"], hash |-> NoParams],
      [search |-> [NoParams EXCEPT !.rid = "R1"], hash |-> NoParams] }

TableNumbers == {"5"}

VARIABLES
    \* --- store (useState fields of RestaurantProvider)
    viewMode, isLoading, error, isPlacingOrder, isUpdatingOrder,
    currentRestaurant, tableId, tableNumber, cart, isCartOpen, lastOrder,
    activeOrders, ordersPage, hasMoreOrders, isOrdersLoading, isAdmin,
    \* --- length of the page the last answered fetchOrders request returned
    lastPageLen,
    \* --- browser: the URL, the menu snapshots in localStorage, page unloaded
    location, menuCache, unloaded,
    \* --- authentication: store fields, the backend's session and profile row
    user, profile, session, dbProfile, authPc,
    \* --- menu: store field, whether the list was empty when the subscription
    \* --- effect last ran, and the backend table
    menuItems, effectMenuEmpty, dbMenu,
    \* --- backend tables
    dbTables, dbOrders, dbOrderItems,
    \* --- realtime
    channels, effectRid, effectPc, rtQueue,
    \* --- async tasks in flight
    initTask, placeCalls, switchCalls, updateCalls, fetchCalls,
    profileCalls, menuCalls, menuWrites, detailCalls,
    \* --- AdminDashboard (useState fields of the component, its lookups in flight)
    orderToCancel, isCancelOrderModalOpen, qrTable, qrTableId, qrCalls,
    \* --- the handler step taken last
    lastOp

sessionVars == << viewMode, isLoading, error, currentRestaurant, tableId, tableNumber, isAdmin >>
cartVars == << cart, isCartOpen, lastOrder, isPlacingOrder >>
orderVars == << activeOrders, ordersPage, hasMoreOrders, isOrdersLoading, isUpdatingOrder,
               lastPageLen >>
storeVars == << sessionVars, cartVars, orderVars >>
dbVars == << dbTables, dbOrders, dbOrderItems >>
rtVars == << channels, effectRid, effectPc, rtQueue >>
dashVars == << orderToCancel, isCancelOrderModalOpen, qrTable, qrTableId, qrCalls >>
orderTaskVars == << fetchCalls, detailCalls, dashVars >>
taskVars == << initTask, placeCalls, switchCalls, updateCalls, orderTaskVars >>
authVars == << user, profile, session, dbProfile, authPc, profileCalls, unloaded >>
menuVars == << menuItems, effectMenuEmpty, dbMenu, menuCache, menuCalls, menuWrites >>
pageVars == << location, authVars, menuVars >>
vars == << storeVars, pageVars, dbVars, rtVars, taskVars, lastOp >>

\* ----------------------------------------------------------------- helpers
RECURSIVE SumSeq(_)
SumSeq(s) == IF s = <<>> THEN 0 ELSE Head(s) + SumSeq(Tail(s))

FreeSlots(calls) == { k \in DOMAIN calls : calls[k] = Idle }

Op(name, k) == [op |-> name, k |-> k]

\* The provider renders its children only when not loading and no error is set.
UIReady == ~isLoading /\ error = NULL

\* --------------------------------------------------------------- the cart
\* Variant: a line is appended whether or not the id is already in the cart.
addToCartUpdaterAppend(prev, item) ==
    Append(prev, [id |-> item.id, price |-> item.price,
                  inStock |-> item.inStock, quantity |-> 1])

\* addToCart's state updater.
addToCartUpdater(prev, item) ==
    IF \E i \in DOMAIN prev : prev[i].id = item.id
    THEN [i \in DOMAIN prev |->
            IF prev[i].id = item.id
            THEN [prev[i] EXCEPT !.quantity = @ + 1]
            ELSE prev[i]]
    ELSE Append(prev, [id |-> item.id, price |-> item.price,
                       inStock |-> item.inStock, quantity |-> 1])

removeFromCartUpdater(prev, itemId) ==
    SelectSeq(prev, LAMBDA i : i.id # itemId)

Max0(n) == IF n < 0 THEN 0 ELSE n

\* Variant: the clamped lines are kept (the trailing filter is dropped).
updateQuantityUpdaterNoFilter(prev, itemId, delta) ==
    [i \in DOMAIN prev |->
        IF prev[i].id = itemId
        THEN [prev[i] EXCEPT !.quantity = Max0(@ + delta)]
        ELSE prev[i]]

updateQuantityUpdater(prev, itemId, delta) ==
    SelectSeq(
        [i \in DOMAIN prev |->
            IF prev[i].id = itemId
            THEN [prev[i] EXCEPT !.quantity = Max0(@ + delta)]
            ELSE prev[i]],
        LAMBDA i : i.quantity > 0)

QtyOf(c, itemId) ==
    SumSeq([i \in DOMAIN c |-> IF c[i].id = itemId THEN c[i].quantity ELSE 0])

Deltas == {-2, -1, 1}

addToCart(item) ==
    /\ UIReady
    /\ QtyOf(cart, item.id) < MaxQty
    /\ cart' = IF item.inStock = FALSE THEN cart ELSE addToCartUpdater(cart, item)
    /\ lastOp' = [op |-> "addToCart", k |-> 0, item |-> item]
    /\ UNCHANGED << sessionVars, isCartOpen, lastOrder, isPlacingOrder, orderVars,
                    pageVars, dbVars, rtVars, taskVars >>

removeFromCart(itemId) ==
    /\ UIReady
    /\ cart' = removeFromCartUpdater(cart, itemId)
    /\ lastOp' = Op("removeFromCart", 0)
    /\ UNCHANGED << sessionVars, isCartOpen, lastOrder, isPlacingOrder, orderVars,
                    pageVars, dbVars, rtVars, taskVars >>

updateQuantity(itemId, delta) ==
    /\ UIReady
    /\ QtyOf(cart, itemId) + delta <= MaxQty
    /\ cart' = updateQuantityUpdater(cart, itemId, delta)
    /\ lastOp' = Op("updateQuantity", 0)
    /\ UNCHANGED << sessionVars, isCartOpen, lastOrder, isPlacingOrder, orderVars,
                    pageVars, dbVars, rtVars, taskVars >>

clearLastOrder ==
    /\ UIReady
    /\ lastOrder # Null
    /\ lastOrder' = Null
    /\ lastOp' = Op("clearLastOrder", 0)
    /\ UNCHANGED << sessionVars, cart, isCartOpen, isPlacingOrder, orderVars,
                    pageVars, dbVars, rtVars, taskVars >>

\* The table-number setter the context hands to its consumers.
setTableNumber(number) ==
    /\ UIReady
    /\ tableNumber' = number
    /\ lastOp' = Op("setTableNumber", 0)
    /\ UNCHANGED << viewMode, isLoading, error, currentRestaurant, tableId, isAdmin,
                    cartVars, orderVars, pageVars, dbVars, rtVars, taskVars >>

\* ------------------------------------------------- tables: lookup-or-create
TableRows(restaurantId, number) ==
    { t \in dbTables : t.restaurant_id = restaurantId /\ t.table_number = number }

\* Responses of the select in resolveTableId: the row, no data (no row, or an
\* error result), or a thrown failure.
SelectTableOutcomes(restaurantId, number) ==
    (IF TableRows(restaurantId, number) # {} THEN {"row"} ELSE {}) \cup {"nodata", "throw"}

\* Responses of the insert in resolveTableId.  The row is created only when the
\* restaurant exists and (restaurant_id, table_number) is not taken; the backend's
\* permission policy may refuse it in any case.
InsertTableOutcomes(restaurantId, number) ==
    (IF restaurantId \in DOMAIN dbRestaurants /\ TableRows(restaurantId, number) = {}
     THEN {"ok"} ELSE {}) \cup {"error"}

NewTableId == "T" \o ToString(Cardinality(dbTables) + 1)

NewTableRow(restaurantId, number) ==
    [id |-> NewTableId, restaurant_id |-> restaurantId, table_number |-> number]

SelectedTableId(restaurantId, number) ==
    (CHOOSE t \in TableRows(restaurantId, number) : TRUE).id

\* ---------------------------------------------------------- parseURLParams
\* The search query is read first; a query embedded in the hash is read after
\* it and overwrites what the search query gave.
URLRid(loc) == IF loc.hash.rid # NULL THEN loc.hash.rid ELSE loc.search.rid
URLTable(loc) == IF loc.hash.table # NULL THEN loc.hash.table ELSE loc.search.table

\* -------------------------------------------------------- switchRestaurant
GetRestaurantOutcomes(id) ==
    (IF id \in DOMAIN dbRestaurants THEN {"ok"} ELSE {"none"}) \cup {"error"}

SwitchErrorMessage(outcome) ==
    IF outcome = "none" THEN "Restaurant not found" ELSE "backend error"

\* switchRestaurant up to its await.
switchRestaurantBegin ==
    /\ isLoading' = TRUE
    /\ error' = NULL

\* Variant: the cart and the receipt are cleared before the response is checked.
switchRestaurantEndEager(id, outcome) ==
    /\ cart' = <<>>
    /\ lastOrder' = Null
    /\ IF outcome = "ok"
       THEN /\ currentRestaurant' = dbRestaurants[id]
            /\ viewMode' = "APP"
            /\ error' = error
       ELSE /\ error' = SwitchErrorMessage(outcome)
            /\ UNCHANGED << currentRestaurant, viewMode >>
    /\ isLoading' = FALSE

\* switchRestaurant from the response of getRestaurant to its end.
switchRestaurantEnd(id, outcome) ==
    /\ IF outcome = "ok"
       THEN /\ currentRestaurant' = dbRestaurants[id]
            /\ cart' = <<>>
            /\ lastOrder' = Null
            /\ viewMode' = "APP"
            /\ error' = error
       ELSE /\ error' = SwitchErrorMessage(outcome)
            /\ UNCHANGED << currentRestaurant, cart, lastOrder, viewMode >>
    /\ isLoading' = FALSE

SwitchOpName(outcome) ==
    IF outcome = "ok" THEN "switchRestaurant.ok" ELSE "switchRestaurant.failed"

switchRestaurant(id) ==
    /\ UIReady
    /\ \E k \in FreeSlots(switchCalls) :
          switchCalls' = [switchCalls EXCEPT ![k] = [pc |-> "getRestaurant", id |-> id]]
    /\ switchRestaurantBegin
    /\ lastOp' = Op("switchRestaurant", 0)
    /\ UNCHANGED << viewMode, currentRestaurant, tableId, tableNumber, isAdmin,
                    cartVars, orderVars, pageVars, dbVars, rtVars,
                    initTask, placeCalls, updateCalls, orderTaskVars >>

switchRestaurantResolve(k, outcome) ==
    /\ switchCalls[k] # Idle
    /\ outcome \in GetRestaurantOutcomes(switchCalls[k].id)
    /\ switchRestaurantEnd(switchCalls[k].id, outcome)
    /\ switchCalls' = [switchCalls EXCEPT ![k] = Idle]
    /\ lastOp' = Op(SwitchOpName(outcome), k)
    /\ UNCHANGED << tableId, tableNumber, isAdmin, isCartOpen, isPlacingOrder,
                    orderVars, pageVars, dbVars, rtVars,
                    initTask, placeCalls, updateCalls, orderTaskVars >>

\* ------------------------------------------------------------------ initApp
\* After parseURLParams: the branch of initApp on rid (a table id is kept in the
\* task until switchRestaurant has returned).
initAfterParse(rid, number, resolved) ==
    IF rid # NULL
    THEN /\ initTask' = [pc |-> "switch", rid |-> rid, tableNumber |-> number,
                         tableId |-> resolved]
         /\ switchRestaurantBegin
         /\ UNCHANGED viewMode
    ELSE /\ initTask' = [pc |-> "done"]
         /\ viewMode' = "LANDING"
         /\ isLoading' = FALSE
         /\ error' = NULL

initAppStart ==
    /\ initTask.pc = "start"
    /\ LET rid == URLRid(location)
           number == URLTable(location)
       IN IF rid # NULL /\ number # NULL
          THEN /\ initTask' = [pc |-> "rt_select", rid |-> rid, tableNumber |-> number]
               /\ isLoading' = TRUE
               /\ error' = NULL
               /\ UNCHANGED viewMode
          ELSE initAfterParse(rid, number, NULL)
    /\ lastOp' = Op("initApp", 0)
    /\ UNCHANGED << currentRestaurant, tableId, tableNumber, isAdmin, cartVars, orderVars,
                    pageVars, dbVars, rtVars, placeCalls, switchCalls, updateCalls,
                    orderTaskVars >>

initAppSelectTable(outcome) ==
    /\ initTask.pc = "rt_select"
    /\ outcome \in SelectTableOutcomes(initTask.rid, initTask.tableNumber)
    /\ CASE outcome = "row" ->
              initAfterParse(initTask.rid, initTask.tableNumber,
                             SelectedTableId(initTask.rid, initTask.tableNumber))
         [] outcome = "nodata" ->
              /\ initTask' = [pc |-> "rt_insert", rid |-> initTask.rid,
                               tableNumber |-> initTask.tableNumber,
                               absent |-> TableRows(initTask.rid, initTask.tableNumber) = {}]
              /\ UNCHANGED << viewMode, isLoading, error >>
         [] outcome = "throw" ->
              initAfterParse(initTask.rid, initTask.tableNumber, NULL)
    /\ lastOp' = Op("initApp.select", 0)
    /\ UNCHANGED << currentRestaurant, tableId, tableNumber, isAdmin, cartVars, orderVars,
                    pageVars, dbVars, rtVars, placeCalls, switchCalls, updateCalls,
                    orderTaskVars >>

\* Variant: a refused insert is thrown to initApp's catch block.
initAppInsertTableRethrow(outcome) ==
    /\ initTask.pc = "rt_insert"
    /\ outcome \in InsertTableOutcomes(initTask.rid, initTask.tableNumber)
    /\ IF outcome = "ok"
       THEN /\ dbTables' = dbTables \cup {NewTableRow(initTask.rid, initTask.tableNumber)}
            /\ initAfterParse(initTask.rid, initTask.tableNumber, NewTableId)
       ELSE /\ UNCHANGED << dbTables, viewMode >>
            /\ error' = "Failed to connect to the restaurant system."
            /\ isLoading' = FALSE
            /\ initTask' = [pc |-> "done"]
    /\ lastOp' = Op("initApp.insert", 0)
    /\ UNCHANGED << currentRestaurant, tableId, tableNumber, isAdmin, cartVars, orderVars,
                    pageVars, dbOrders, dbOrderItems, rtVars, placeCalls, switchCalls,
                    updateCalls, orderTaskVars >>

initAppInsertTable(outcome) ==
    /\ initTask.pc = "rt_insert"
    /\ outcome \in InsertTableOutcomes(initTask.rid, initTask.tableNumber)
    /\ IF outcome = "ok"
       THEN /\ dbTables' = dbTables \cup {NewTableRow(initTask.rid, initTask.tableNumber)}
            /\ initAfterParse(initTask.rid, initTask.tableNumber, NewTableId)
       ELSE /\ UNCHANGED dbTables
            /\ initAfterParse(initTask.rid, initTask.tableNumber, NULL)
    /\ lastOp' = Op("initApp.insert", 0)
    /\ UNCHANGED << currentRestaurant, tableId, tableNumber, isAdmin, cartVars, orderVars,
                    pageVars, dbOrders, dbOrderItems, rtVars, placeCalls, switchCalls,
                    updateCalls, orderTaskVars >>

\* The response of getRestaurant inside initApp's `await switchRestaurant(rid)`.
initAppSwitch(outcome) ==
    /\ initTask.pc = "switch"
    /\ outcome \in GetRestaurantOutcomes(initTask.rid)
    /\ switchRestaurantEnd(initTask.rid, outcome)
    /\ initTask' = [initTask EXCEPT !.pc = "cont"]
    /\ lastOp' = Op(SwitchOpName(outcome), 0)
    /\ UNCHANGED << tableId, tableNumber, isAdmin, isCartOpen, isPlacingOrder,
                    orderVars, pageVars, dbVars, rtVars,
                    placeCalls, switchCalls, updateCalls, orderTaskVars >>

\* initApp after switchRestaurant has returned (it returns without throwing on
\* either outcome), through the finally block.
initAppCont ==
    /\ initTask.pc = "cont"
    /\ IF initTask.tableId # NULL
       THEN /\ tableId' = initTask.tableId
            /\ tableNumber' = initTask.tableNumber
            /\ isAdmin' = FALSE
       ELSE UNCHANGED << tableId, tableNumber, isAdmin >>
    /\ viewMode' = "APP"
    /\ isLoading' = FALSE
    /\ initTask' = [pc |-> "done"]
    /\ lastOp' = Op("initApp.done", 0)
    /\ UNCHANGED << error, currentRestaurant, cartVars, orderVars, pageVars, dbVars,
                    rtVars, placeCalls, switchCalls, updateCalls, orderTaskVars >>

\* --------------------------------------------------------------- placeOrder
\* const subtotal = cart.reduce((sum, item) => sum + (item.price * item.quantity), 0)
Subtotal(c) == SumSeq([i \in DOMAIN c |-> c[i].price * c[i].quantity])

\* const tax = subtotal * 0.05
Tax(subtotal) == (subtotal * TaxPercent) \div 100

\* Variant: the tax is left out of the total.
TotalAmountNoTax(subtotal, tax) == subtotal

\* const totalAmount = subtotal + tax
TotalAmount(subtotal, tax) == subtotal + tax

\* A numeric(10, 2) column keeps two decimals, rounding half away from zero.
Numeric2(x) == ((x + (Unit \div 200)) \div (Unit \div 100)) * (Unit \div 100)

TwoDigits(n) == IF n < 10 THEN "0" \o ToString(n) ELSE ToString(n)

\* Number.prototype.toFixed(2) of a non-negative amount.
ToFixed2(x) ==
    LET hundredths == (x + (Unit \div 200)) \div (Unit \div 100)
    IN ToString(hundredths \div 100) \o "." \o TwoDigits(hundredths % 100)

\* The total line of the order confirmation: lastOrder.total.toFixed(2).
OrderSuccessTotal(order) == ToFixed2(order.total)

CreateOutcomes == {"ok", "error"}

NewOrderId == "O" \o ToString(Len(dbOrders) + 1)

\* ordersApi.createOrder's row.
OrderRow(call) ==
    [id |-> NewOrderId,
     restaurant_id |-> call.restaurant.id,
     table_id |-> call.tableId,
     status |-> PENDING,
     total_amount |-> Numeric2(call.totalAmount)]

\* const orderItems = cart.map(item => ({ order_id, menu_item_id, quantity, price }))
OrderItemRows(call) ==
    [i \in DOMAIN call.cart |->
        [order_id |-> call.orderId,
         menu_item_id |-> call.cart[i].id,
         quantity |-> call.cart[i].quantity,
         price |-> call.cart[i].price]]

\* Variant: the receipt takes the order's header only.
ReceiptNoItems(call) ==
    [id |-> call.orderId,
     restaurantId |-> call.restaurant.id,
     tableId |-> call.tableNumber,
     items |-> <<>>,
     status |-> PENDING,
     total |-> call.totalAmount]

\* The receipt placeOrder hands to setLastOrder.
Receipt(call) ==
    [id |-> call.orderId,
     restaurantId |-> call.restaurant.id,
     tableId |-> call.tableNumber,
     items |-> call.cart,
     status |-> PENDING,
     total |-> call.totalAmount]

\* Variant: the guard does not look at the table.
placeOrderReturnsEarlyNoTable ==
    Len(cart) = 0 \/ currentRestaurant = Null

\* The guard at the head of placeOrder.
placeOrderReturnsEarly ==
    Len(cart) = 0 \/ currentRestaurant = Null \/ tableNumber = NULL

placeOrder ==
    /\ UIReady
    /\ IF placeOrderReturnsEarly
       THEN /\ lastOp' = Op("placeOrder.noop", 0)
            /\ UNCHANGED << isPlacingOrder, placeCalls >>
       ELSE /\ Len(dbOrders) < MaxOrders
            /\ \E k \in FreeSlots(placeCalls) :
                 /\ placeCalls' = [placeCalls EXCEPT ![k] =
                        [pc |-> "rt_select", cart |-> cart,
                         restaurant |-> currentRestaurant,
                         tableNumber |-> tableNumber]]
                 /\ lastOp' = Op("placeOrder", k)
            /\ isPlacingOrder' = TRUE
    /\ UNCHANGED << sessionVars, cart, isCartOpen, lastOrder, orderVars, pageVars,
                    dbVars, rtVars, initTask, switchCalls, updateCalls, orderTaskVars >>

\* placeOrder once resolveTableId has returned `resolved`: the totals and the
\* createOrder request, or the throw of 'Table not found' into catch and finally.
placeOrderAfterResolve(k, resolved) ==
    IF resolved # NULL
    THEN /\ LET subtotal == Subtotal(placeCalls[k].cart)
                tax == Tax(subtotal)
            IN placeCalls' = [placeCalls EXCEPT ![k] =
                   [pc |-> "createOrder", cart |-> placeCalls[k].cart,
                    restaurant |-> placeCalls[k].restaurant,
                    tableNumber |-> placeCalls[k].tableNumber,
                    tableId |-> resolved, subtotal |-> subtotal, tax |-> tax,
                    totalAmount |-> TotalAmount(subtotal, tax)]]
         /\ UNCHANGED isPlacingOrder
    ELSE /\ placeCalls' = [placeCalls EXCEPT ![k] = Idle]
         /\ isPlacingOrder' = FALSE

placeOrderSelectTable(k, outcome) ==
    /\ placeCalls[k].pc = "rt_select"
    /\ LET rid == placeCalls[k].restaurant.id
           number == placeCalls[k].tableNumber
       IN /\ outcome \in SelectTableOutcomes(rid, number)
          /\ CASE outcome = "row" ->
                    placeOrderAfterResolve(k, SelectedTableId(rid, number))
               [] outcome = "nodata" ->
                    /\ placeCalls' = [placeCalls EXCEPT ![k].pc = "rt_insert"]
                    /\ UNCHANGED isPlacingOrder
               [] outcome = "throw" ->
                    placeOrderAfterResolve(k, NULL)
          /\ lastOp' = Op(IF outcome = "throw" THEN "placeOrder.failed"
                          ELSE "placeOrder.select", k)
    /\ UNCHANGED << sessionVars, cart, isCartOpen, lastOrder, orderVars, pageVars,
                    dbVars, rtVars, initTask, switchCalls, updateCalls, orderTaskVars >>

placeOrderInsertTable(k, outcome) ==
    /\ placeCalls[k].pc = "rt_insert"
    /\ LET rid == placeCalls[k].restaurant.id
           number == placeCalls[k].tableNumber
       IN /\ outcome \in InsertTableOutcomes(rid, number)
          /\ IF outcome = "ok"
             THEN /\ dbTables' = dbTables \cup {NewTableRow(rid, number)}
                  /\ placeOrderAfterResolve(k, NewTableId)
                  /\ lastOp' = Op("placeOrder.insertTable", k)
             ELSE /\ UNCHANGED dbTables
                  /\ placeOrderAfterResolve(k, NULL)
                  /\ lastOp' = Op("placeOrder.failed", k)
    /\ UNCHANGED << sessionVars, cart, isCartOpen, lastOrder, orderVars, pageVars,
                    dbOrders, dbOrderItems, rtVars, initTask, switchCalls, updateCalls,
                    orderTaskVars >>

placeOrderCreateOrder(k, outcome) ==
    /\ placeCalls[k].pc = "createOrder"
    /\ outcome \in CreateOutcomes
    /\ IF outcome = "ok"
       THEN /\ dbOrders' = Append(dbOrders, OrderRow(placeCalls[k]))
            /\ placeCalls' = [placeCalls EXCEPT ![k] =
                   [pc |-> "createItems", cart |-> placeCalls[k].cart,
                    restaurant |-> placeCalls[k].restaurant,
                    tableNumber |-> placeCalls[k].tableNumber,
                    tableId |-> placeCalls[k].tableId,
                    subtotal |-> placeCalls[k].subtotal, tax |-> placeCalls[k].tax,
                    totalAmount |-> placeCalls[k].totalAmount,
                    orderId |-> NewOrderId]]
            /\ lastOp' = Op("placeOrder.createOrder", k)
            /\ UNCHANGED isPlacingOrder
       ELSE /\ UNCHANGED dbOrders
            /\ placeCalls' = [placeCalls EXCEPT ![k] = Idle]
            /\ isPlacingOrder' = FALSE
            /\ lastOp' = Op("placeOrder.failed", k)
    /\ UNCHANGED << sessionVars, cart, isCartOpen, lastOrder, orderVars, pageVars,
                    dbTables, dbOrderItems, rtVars, initTask, switchCalls, updateCalls,
                    orderTaskVars >>

\* Variant: the cart is cleared before itemsError is looked at.
placeOrderSettleEager(call, outcome) ==
    IF outcome = "ok"
    THEN [cart |-> <<>>, isCartOpen |-> FALSE, lastOrder |-> Receipt(call)]
    ELSE [cart |-> <<>>, isCartOpen |-> isCartOpen, lastOrder |-> lastOrder]

\* What the response of createOrderItems leaves in cart, isCartOpen and lastOrder:
\* `if (itemsError) throw itemsError` comes before the cart is cleared.
placeOrderSettle(call, outcome) ==
    IF outcome = "ok"
    THEN [cart |-> <<>>, isCartOpen |-> FALSE, lastOrder |-> Receipt(call)]
    ELSE [cart |-> cart, isCartOpen |-> isCartOpen, lastOrder |-> lastOrder]

placeOrderCreateItems(k, outcome) ==
    /\ placeCalls[k].pc = "createItems"
    /\ outcome \in CreateOutcomes
    /\ dbOrderItems' = IF outcome = "ok"
                       THEN dbOrderItems \o OrderItemRows(placeCalls[k])
                       ELSE dbOrderItems
    /\ cart' = placeOrderSettle(placeCalls[k], outcome).cart
    /\ isCartOpen' = placeOrderSettle(placeCalls[k], outcome).isCartOpen
    /\ lastOrder' = placeOrderSettle(placeCalls[k], outcome).lastOrder
    /\ lastOp' = Op(IF outcome = "ok" THEN "placeOrder.success"
                    ELSE "placeOrder.itemsFailed", k)
    /\ placeCalls' = [placeCalls EXCEPT ![k] = Idle]
    /\ isPlacingOrder' = FALSE
    /\ UNCHANGED << sessionVars, orderVars, pageVars, dbTables, dbOrders, rtVars,
                    initTask, switchCalls, updateCalls, orderTaskVars >>

\* ------------------------------------------------------ customer session
\* The store as useState constructs it, before the mount effect runs initApp.
InitStore ==
    /\ viewMode = "LANDING"
    /\ isLoading = TRUE
    /\ error = NULL
    /\ isPlacingOrder = FALSE
    /\ isUpdatingOrder = {}
    /\ currentRestaurant = Null
    /\ tableId = NULL
    /\ tableNumber = NULL
    /\ cart = <<>>
    /\ isCartOpen = FALSE
    /\ lastOrder = Null
    /\ activeOrders = <<>>
    /\ ordersPage = 0
    /\ hasMoreOrders = TRUE
    /\ isOrdersLoading = FALSE
    /\ isAdmin = FALSE
    /\ lastPageLen = -1

\* AdminDashboard's useState initial values.  The text of the table-number input
\* is a sequence of characters.
InitDashboard ==
    /\ orderToCancel = NULL
    /\ isCancelOrderModalOpen = FALSE
    /\ qrTable = <<>>
    /\ qrTableId = NULL
    /\ qrCalls = <<>>

InitTasks ==
    /\ initTask = [pc |-> "start"]
    /\ placeCalls = << Idle >>
    /\ switchCalls = << Idle >>
    /\ updateCalls = [k \in 1..MaxUpdateCalls |-> Idle]
    /\ fetchCalls = <<>>
    /\ detailCalls = <<>>
    /\ InitDashboard
    /\ lastOp = Op("mount", 0)

InitRealtime ==
    /\ channels = {}
    /\ effectRid = NULL
    /\ effectPc = "idle"
    /\ rtQueue = <<>>

\* No user is signed in on this browser.
InitGuest ==
    /\ user = NULL
    /\ profile = Null
    /\ session = NULL
    /\ dbProfile = Null
    /\ authPc = [getSession |-> FALSE, initialEvent |-> FALSE]
    /\ profileCalls = <<>>
    /\ unloaded = FALSE

\* Nothing of the menu is in the store; no request about it is in flight.
InitMenuStore ==
    /\ menuItems = <<>>
    /\ effectMenuEmpty = TRUE
    /\ menuCalls = <<>>
    /\ menuWrites = <<>>

\* The backend holds no menu rows and the browser no menu snapshot.
InitNoMenu ==
    /\ InitMenuStore
    /\ dbMenu = <<>>
    /\ menuCache = [r \in DOMAIN dbRestaurants |-> Null]

Table5 == [id |-> "T1", restaurant_id |-> "R1", table_number |-> "5"]

Init ==
    /\ InitStore
    /\ InitTasks
    /\ location \in Locations
    /\ dbTables \in {{}, {Table5}}
    /\ dbOrders = <<>>
    /\ dbOrderItems = <<>>
    /\ InitRealtime
    /\ InitGuest
    /\ InitNoMenu

\* A continuation that follows a returned promise, and the set-up that follows an
\* effect's clean-up, run before any other event.
Settled == initTask.pc # "cont" /\ effectPc # "setup"

Next ==
    \/ initAppStart
    \/ \E o \in {"row", "nodata", "throw"} : initAppSelectTable(o)
    \/ \E o \in CreateOutcomes : initAppInsertTable(o)
    \/ \E o \in {"ok", "none", "error"} : initAppSwitch(o)
    \/ initAppCont
    \/ Settled /\ \E item \in Menu : addToCart(item)
    \/ Settled /\ \E item \in Menu : removeFromCart(item.id)
    \/ Settled /\ \E item \in Menu, delta \in Deltas : updateQuantity(item.id, delta)
    \/ Settled /\ clearLastOrder
    \/ Settled /\ \E n \in TableNumbers : setTableNumber(n)
    \/ Settled /\ \E id \in SwitchTargets : switchRestaurant(id)
    \/ Settled /\ \E k \in DOMAIN switchCalls, o \in {"ok", "none", "error"} :
                     switchRestaurantResolve(k, o)
    \/ Settled /\ placeOrder
    \/ Settled /\ \E k \in DOMAIN placeCalls, o \in {"row", "nodata", "throw"} :
                     placeOrderSelectTable(k, o)
    \/ Settled /\ \E k \in DOMAIN placeCalls, o \in CreateOutcomes :
                     placeOrderInsertTable(k, o)
    \/ Settled /\ \E k \in DOMAIN placeCalls, o \in CreateOutcomes :
                     placeOrderCreateOrder(k, o)
    \/ Settled /\ \E k \in DOMAIN placeCalls, o \in CreateOutcomes :
                     placeOrderCreateItems(k, o)

Spec == Init /\ [][Next]_vars

\* A customer session in which only the cart is worked on.
NextCart ==
    \/ initAppStart
    \/ \E o \in {"row", "nodata", "throw"} : initAppSelectTable(o)
    \/ \E o \in CreateOutcomes : initAppInsertTable(o)
    \/ \E o \in {"ok", "none", "error"} : initAppSwitch(o)
    \/ initAppCont
    \/ Settled /\ \E item \in Menu : addToCart(item)
    \/ Settled /\ \E item \in Menu : removeFromCart(item.id)
    \/ Settled /\ \E item \in Menu, delta \in Deltas : updateQuantity(item.id, delta)

SpecCart == Init /\ [][NextCart]_vars

\* ------------------------------------------------------ session resolution
\* The page is opened on a URL and initApp runs to its end.
RidOnlyLocation == [search |-> [NoParams EXCEPT !.rid = "R1"], hash |-> NoParams]

CanonicalLocation ==
    [search |-> [NoParams EXCEPT !.rid = "R1", !.tableId = "T1", !.tableNo = "5"],
     hash |-> NoParams]

ConflictLocation ==
    [search |-> [NoParams EXCEPT !.rid = "R1", !.table = "5"],
     hash |-> [NoParams EXCEPT !.rid = "R2", !.table = "7"]]

\* The URL the dashboard's QR generator writes: every parameter in the hash.
QRLocation ==
    [search |-> NoParams,
     hash |-> [NoParams EXCEPT !.rid = "R1", !.table = "5", !.tableId = "T1"]]

InitLocations ==
    Locations \cup {RidOnlyLocation, CanonicalLocation, ConflictLocation, QRLocation,
                    [search |-> [NoParams EXCEPT !.rid = "R1"],
                     hash |-> [NoParams EXCEPT !.table = "5"]],
                    [search |-> [NoParams EXCEPT !.rid = "R9", !.table = "5"],
                     hash |-> NoParams]}

InitResolve ==
    /\ InitStore
    /\ InitTasks
    /\ location \in InitLocations
    /\ dbTables \in {{}, {Table5}}
    /\ dbOrders = <<>>
    /\ dbOrderItems = <<>>
    /\ InitRealtime
    /\ InitGuest
    /\ InitNoMenu

NextResolve ==
    \/ initAppStart
    \/ \E o \in {"row", "nodata", "throw"} : initAppSelectTable(o)
    \/ \E o \in CreateOutcomes : initAppInsertTable(o)
    \/ \E o \in {"ok", "none", "error"} : initAppSwitch(o)
    \/ initAppCont

SpecResolve == InitResolve /\ [][NextResolve]_vars

AdminLinkedProfile == [role |-> "admin", current_restaurant_id |-> "R1"]

ProfileRows ==
    { AdminLinkedProfile,
      [role |-> "staff", current_restaurant_id |-> "R1"],
      [role |-> "admin", current_restaurant_id |-> NULL],
      [role |-> "customer", current_restaurant_id |-> NULL] }

\* Results of profileApi.getProfile: { data }, { error }, or neither.
GetProfileOutcomes ==
    (IF dbProfile # Null THEN {"data"} ELSE {}) \cup {"error", "none"}

\* Variant: only the staff role makes a dashboard session.
IsLinkedStaffOnly(p) ==
    p.role = "staff" /\ p.current_restaurant_id # NULL

\* (role === 'admin' || role === 'staff') && current_restaurant_id
IsLinkedStaff(p) ==
    p.role \in {"admin", "staff"} /\ p.current_restaurant_id # NULL

\* fetchProfile(uid) up to its await.
fetchProfileBegin == Append(profileCalls, [pc |-> "getProfile"])

\* supabase.auth.getSession().then(...)
getSessionThen ==
    /\ authPc.getSession
    /\ initTask.pc # "start"
    /\ authPc' = [authPc EXCEPT !.getSession = FALSE]
    /\ user' = session
    /\ profileCalls' = IF session # NULL THEN fetchProfileBegin ELSE profileCalls
    /\ lastOp' = Op("getSession", 0)
    /\ UNCHANGED << storeVars, location, profile, session, dbProfile, unloaded, menuVars,
                    dbVars, rtVars, taskVars >>

\* The callback of onAuthStateChange for the session found at start-up.
onAuthStateChange ==
    /\ authPc.initialEvent
    /\ initTask.pc # "start"
    /\ authPc' = [authPc EXCEPT !.initialEvent = FALSE]
    /\ user' = session
    /\ IF session # NULL
       THEN /\ profileCalls' = fetchProfileBegin
            /\ UNCHANGED << profile, isAdmin >>
       ELSE /\ profile' = Null
            /\ isAdmin' = FALSE
            /\ UNCHANGED profileCalls
    /\ lastOp' = Op("onAuthStateChange", 0)
    /\ UNCHANGED << viewMode, isLoading, error, currentRestaurant, tableId, tableNumber,
                    cartVars, orderVars, location, session, dbProfile, unloaded, menuVars,
                    dbVars, rtVars, taskVars >>

\* fetchProfile after its parseURLParams: the branch on the loaded profile.  The
\* function is the one of the first render: its tableId and user are null.
fetchProfileBranch(k, p, urlTableId) ==
    IF IsLinkedStaff(p)
       THEN IF urlTableId = NULL
            THEN /\ isAdmin' = TRUE
                 /\ switchRestaurantBegin
                 /\ profileCalls' = [profileCalls EXCEPT ![k] =
                        [pc |-> "switch", profile |-> p, id |-> p.current_restaurant_id]]
            ELSE /\ profileCalls' = [profileCalls EXCEPT ![k] = [pc |-> "done"]]
                 /\ UNCHANGED << isAdmin, isLoading, error >>
       ELSE IF p.role = "admin"
       THEN /\ profileCalls' = [profileCalls EXCEPT ![k] = [pc |-> "heal", profile |-> p]]
            /\ UNCHANGED << isAdmin, isLoading, error >>
       ELSE /\ isAdmin' = FALSE
            /\ profileCalls' = [profileCalls EXCEPT ![k] = [pc |-> "done"]]
            /\ UNCHANGED << isLoading, error >>

\* The response of getProfile.
fetchProfileResolve(k, outcome) ==
    /\ k \in DOMAIN profileCalls
    /\ profileCalls[k].pc = "getProfile"
    /\ outcome \in GetProfileOutcomes
    /\ CASE outcome = "data" ->
              /\ profile' = dbProfile
              /\ IF URLRid(location) # NULL /\ URLTable(location) # NULL
                 THEN /\ profileCalls' = [profileCalls EXCEPT ![k] =
                             [pc |-> "rt_select", profile |-> dbProfile]]
                      /\ UNCHANGED << isAdmin, isLoading, error >>
                 ELSE fetchProfileBranch(k, dbProfile, NULL)
         [] outcome = "error" ->
              /\ profileCalls' = [profileCalls EXCEPT ![k] = [pc |-> "signOut"]]
              /\ UNCHANGED << profile, isAdmin, isLoading, error >>
         [] outcome = "none" ->
              /\ profileCalls' = [profileCalls EXCEPT ![k] = [pc |-> "nodata"]]
              /\ UNCHANGED << profile, isAdmin, isLoading, error >>
    /\ lastOp' = [op |-> "fetchProfile", k |-> k, outcome |-> outcome]
    /\ UNCHANGED << viewMode, currentRestaurant, tableId, tableNumber, cartVars, orderVars,
                    location, user, session, dbProfile, authPc, unloaded, menuVars,
                    dbVars, rtVars, taskVars >>

\* resolveTableId's select inside fetchProfile's parseURLParams.
fetchProfileSelectTable(k, outcome) ==
    /\ k \in DOMAIN profileCalls
    /\ profileCalls[k].pc = "rt_select"
    /\ outcome \in SelectTableOutcomes(URLRid(location), URLTable(location))
    /\ CASE outcome = "row" ->
              fetchProfileBranch(k, profileCalls[k].profile,
                                 SelectedTableId(URLRid(location), URLTable(location)))
         [] outcome = "nodata" ->
              /\ profileCalls' = [profileCalls EXCEPT ![k] =
                     [pc |-> "rt_insert", profile |-> profileCalls[k].profile,
                      absent |-> TableRows(URLRid(location), URLTable(location)) = {}]]
              /\ UNCHANGED << isAdmin, isLoading, error >>
         [] outcome = "throw" ->
              fetchProfileBranch(k, profileCalls[k].profile, NULL)
    /\ lastOp' = [op |-> "fetchProfile.select", k |-> k, outcome |-> outcome]
    /\ UNCHANGED << viewMode, currentRestaurant, tableId, tableNumber, cartVars, orderVars,
                    location, user, profile, session, dbProfile, authPc, unloaded, menuVars,
                    dbVars, rtVars, taskVars >>

\* resolveTableId's insert inside fetchProfile's parseURLParams.
fetchProfileInsertTable(k, outcome) ==
    /\ k \in DOMAIN profileCalls
    /\ profileCalls[k].pc = "rt_insert"
    /\ outcome \in InsertTableOutcomes(URLRid(location), URLTable(location))
    /\ IF outcome = "ok"
       THEN /\ dbTables' = dbTables \cup {NewTableRow(URLRid(location), URLTable(location))}
            /\ fetchProfileBranch(k, profileCalls[k].profile, NewTableId)
       ELSE /\ UNCHANGED dbTables
            /\ fetchProfileBranch(k, profileCalls[k].profile, NULL)
    /\ lastOp' = [op |-> "fetchProfile.insert", k |-> k, outcome |-> outcome,
                  resolved |-> IF outcome = "ok" THEN NewTableId ELSE NULL]
    /\ UNCHANGED << viewMode, currentRestaurant, tableId, tableNumber, cartVars, orderVars,
                    location, user, profile, session, dbProfile, authPc, unloaded, menuVars,
                    dbOrders, dbOrderItems, rtVars, taskVars >>

\* The response of getRestaurant inside fetchProfile's `await switchRestaurant`.
fetchProfileSwitch(k, outcome) ==
    /\ k \in DOMAIN profileCalls
    /\ profileCalls[k].pc = "switch"
    /\ outcome \in GetRestaurantOutcomes(profileCalls[k].id)
    /\ switchRestaurantEnd(profileCalls[k].id, outcome)
    /\ profileCalls' = [profileCalls EXCEPT ![k] = [pc |-> "done"]]
    /\ lastOp' = Op(SwitchOpName(outcome), k)
    /\ UNCHANGED << tableId, tableNumber, isAdmin, isCartOpen, isPlacingOrder, orderVars,
                    location, user, profile, session, dbProfile, authPc, unloaded, menuVars,
                    dbVars, rtVars, taskVars >>

\* The response of the restaurant lookup of the unlinked-admin branch.  Its
\* result is not read; `user` is the first render's, so the branch ends in
\* setIsAdmin(false).
fetchProfileHeal(k) ==
    /\ k \in DOMAIN profileCalls
    /\ profileCalls[k].pc = "heal"
    /\ isAdmin' = FALSE
    /\ profileCalls' = [profileCalls EXCEPT ![k] = [pc |-> "done"]]
    /\ lastOp' = Op("fetchProfile.heal", k)
    /\ UNCHANGED << viewMode, isLoading, error, currentRestaurant, tableId, tableNumber,
                    cartVars, orderVars, location, user, profile, session, dbProfile, authPc,
                    unloaded, menuVars, dbVars, rtVars, taskVars >>

\* handleLogout from the response of signOut: the browser's storage is cleared,
\* the store is reset and the page is replaced.
handleLogout(k) ==
    /\ k \in DOMAIN profileCalls
    /\ profileCalls[k].pc = "signOut"
    /\ session' = NULL
    /\ menuCache' = [r \in DOMAIN menuCache |-> Null]
    /\ isAdmin' = FALSE
    /\ profile' = Null
    /\ user' = NULL
    /\ unloaded' = TRUE
    /\ profileCalls' = [profileCalls EXCEPT ![k] = [pc |-> "loggedOut"]]
    /\ lastOp' = Op("handleLogout", k)
    /\ UNCHANGED << viewMode, isLoading, error, currentRestaurant, tableId, tableNumber,
                    cartVars, orderVars, location, dbProfile, authPc,
                    menuItems, effectMenuEmpty, dbMenu, menuCalls, menuWrites,
                    dbVars, rtVars, taskVars >>

\* A browser that may hold a session: the mount effect has asked for it and has
\* registered its listener.
InitAuth ==
    /\ InitStore
    /\ InitTasks
    /\ location \in Locations
    /\ dbTables \in {{}, {Table5}}
    /\ dbOrders = <<>>
    /\ dbOrderItems = <<>>
    /\ InitRealtime
    /\ InitNoMenu
    /\ user = NULL
    /\ profile = Null
    /\ session \in {NULL, "U1"}
    /\ dbProfile \in ProfileRows \cup {Null}
    /\ authPc = [getSession |-> TRUE, initialEvent |-> TRUE]
    /\ profileCalls = <<>>
    /\ unloaded = FALSE

\* The page is running and no continuation is due.
Running == ~unloaded /\ Settled

AuthResponses ==
    \/ initAppStart
    \/ ~unloaded /\ \E o \in {"row", "nodata", "throw"} : initAppSelectTable(o)
    \/ ~unloaded /\ \E o \in CreateOutcomes : initAppInsertTable(o)
    \/ ~unloaded /\ \E o \in {"ok", "none", "error"} : initAppSwitch(o)
    \/ ~unloaded /\ initAppCont
    \/ Running /\ getSessionThen
    \/ Running /\ \E k \in DOMAIN profileCalls, o \in {"data", "error", "none"} :
                     fetchProfileResolve(k, o)
    \/ Running /\ \E k \in DOMAIN profileCalls, o \in {"row", "nodata", "throw"} :
                     fetchProfileSelectTable(k, o)
    \/ Running /\ \E k \in DOMAIN profileCalls, o \in CreateOutcomes :
                     fetchProfileInsertTable(k, o)
    \/ Running /\ \E k \in DOMAIN profileCalls, o \in {"ok", "none", "error"} :
                     fetchProfileSwitch(k, o)
    \/ Running /\ \E k \in DOMAIN profileCalls : fetchProfileHeal(k)
    \/ Running /\ \E k \in DOMAIN profileCalls : handleLogout(k)

NextAuth ==
    \/ AuthResponses
    \/ Running /\ onAuthStateChange

SpecAuth == InitAuth /\ [][NextAuth]_vars

\* Every request is answered and every continuation runs; the listener's
\* start-up event may or may not be delivered.
SpecAuthFair == SpecAuth /\ WF_vars(AuthResponses)

\* fetchProfile has returned: with a profile handled ("done"), with neither a
\* profile nor an error ("nodata"), or through handleLogout ("loggedOut").
ProfileEnded(k) == profileCalls[k].pc \in {"done", "nodata", "loggedOut"}

AuthQuiet ==
    /\ initTask.pc = "done"
    /\ ~authPc.getSession
    /\ \A k \in DOMAIN profileCalls : ProfileEnded(k)

\* A signed-in admin whose profile is linked to R1 opens the page with no query.
AdminScenario ==
    /\ location = [search |-> NoParams, hash |-> NoParams]
    /\ dbProfile = AdminLinkedProfile
    /\ (session = "U1" \/ unloaded)

\* No backend call of the session has failed: a profile is loaded, no error is
\* set and the page was not replaced by a logout.
AdminHealthy == profile # Null /\ error = NULL /\ ~unloaded

AdminDashboardShown ==
    /\ viewMode = "APP"
    /\ isAdmin
    /\ currentRestaurant = dbRestaurants[AdminLinkedProfile.current_restaurant_id]

\* C15: a signed-in admin with a linked restaurant who opens the page without
\* query parameters gets, in every interleaving of initApp with the profile loads,
\* to a state where all of them have returned (or a logout has replaced the
\* page), and whenever they have returned without a backend failure the dashboard of the linked restaurant is shown
\* (viewMode APP, isAdmin, currentRestaurant = the linked restaurant).
C15_AdminReachesDashboard ==
    /\ (AdminScenario ~>
            (unloaded \/ (AuthQuiet /\ (AdminHealthy => AdminDashboardShown))))
    /\ [](AdminScenario /\ AuthQuiet /\ AdminHealthy => AdminDashboardShown)

\* Both profile loads (getSession's and the listener's) ran beside initApp and
\* the dashboard is shown.
C15_Witness ==
    /\ AdminScenario
    /\ AuthQuiet
    /\ Len(profileCalls) = 2
    /\ AdminHealthy
    /\ AdminDashboardShown
    /\ lastOp.op = "switchRestaurant.ok"

MayCreateTables ==
    session # NULL /\ dbProfile # Null /\ dbProfile.role \in {"admin", "staff"}

\* C17: there is at most one tables row per (restaurant, number) and a stored row
\* is never changed, whatever the interleaving of the lookup-or-create
\* resolutions; and a permitted caller that found the pair absent gets, when its
\* resolution ends with a row of that pair stored, the id of that row.
C17_OneRowPerTable ==
    [][/\ \A t1, t2 \in dbTables' :
             t1.restaurant_id = t2.restaurant_id /\ t1.table_number = t2.table_number
                => t1 = t2
       /\ dbTables \subseteq dbTables'
       /\ ( /\ MayCreateTables
            /\ initTask.pc = "rt_insert" /\ initTask' # initTask
            /\ initTask.absent )
            => \A t \in dbTables' :
                  t.restaurant_id = initTask.rid /\ t.table_number = initTask.tableNumber
                     => initTask'.pc = "switch" /\ initTask'.tableId = t.id
       /\ \A k \in DOMAIN profileCalls :
            ( /\ MayCreateTables
              /\ profileCalls[k].pc = "rt_insert" /\ profileCalls'[k] # profileCalls[k]
              /\ profileCalls[k].absent )
              => \A t \in dbTables' :
                    t.restaurant_id = URLRid(location) /\ t.table_number = URLTable(location)
                       => lastOp'.resolved = t.id
      ]_vars

\* --------------------------------------------------------- the order list
Reverse(s) == [i \in 1..Len(s) |-> s[Len(s) + 1 - i]]

Min(a, b) == IF a < b THEN a ELSE b

\* dbOrder.tables?.table_number || '?'
TableNumberOf(id) ==
    IF \E t \in dbTables : t.id = id
    THEN (CHOOSE t \in dbTables : t.id = id).table_number
    ELSE "?"

\* dbOrder.order_items?.map(oi => ({ ...oi.menu_items, quantity: oi.quantity }))
OrderItemsOf(orderId) ==
    LET rows == SelectSeq(dbOrderItems, LAMBDA oi : oi.order_id = orderId)
    IN [i \in DOMAIN rows |-> [id |-> rows[i].menu_item_id, quantity |-> rows[i].quantity]]

transformOrder(dbOrder) ==
    [id |-> dbOrder.id,
     restaurantId |-> dbOrder.restaurant_id,
     tableId |-> TableNumberOf(dbOrder.table_id),
     items |-> OrderItemsOf(dbOrder.id),
     status |-> dbOrder.status,
     total |-> dbOrder.total_amount]

\* The gateway's page: the restaurant's orders by recency descending, rows
\* page * size .. page * size + size - 1.
getActiveOrders(restaurantId, page, size) ==
    LET rows == Reverse(SelectSeq(dbOrders, LAMBDA o : o.restaurant_id = restaurantId))
    IN SubSeq(rows, page * size + 1, Min(Len(rows), page * size + size))

RemoveAt(s, i) == SubSeq(s, 1, i - 1) \o SubSeq(s, i + 1, Len(s))

\* Variant: more pages are assumed whenever the page is not empty.
HasMoreIfNonEmpty(data) == Len(data) > 0

\* setHasMoreOrders(data.length === 20)
HasMore(data) == Len(data) = PageSize

CurrentId == IF currentRestaurant = Null THEN NULL ELSE currentRestaurant.id

\* fetchOrders(reset) up to its await, for the request it issues.
FetchRequest(reset) ==
    [reset |-> reset,
     page |-> IF reset THEN 0 ELSE ordersPage + 1,
     rid |-> currentRestaurant.id]

\* loadMoreOrders = () => fetchOrders(false)
loadMoreOrders ==
    /\ UIReady
    /\ IF currentRestaurant = Null \/ ~hasMoreOrders
       THEN /\ lastOp' = Op("loadMoreOrders.noop", 0)
            /\ UNCHANGED << isOrdersLoading, fetchCalls >>
       ELSE /\ Len(fetchCalls) < MaxFetchCalls
            /\ isOrdersLoading' = TRUE
            /\ fetchCalls' = Append(fetchCalls, FetchRequest(FALSE))
            /\ lastOp' = Op("loadMoreOrders", 0)
    /\ UNCHANGED << sessionVars, cartVars, activeOrders, ordersPage, hasMoreOrders,
                    isUpdatingOrder, lastPageLen, pageVars, dbVars, rtVars,
                    initTask, placeCalls, switchCalls, updateCalls, detailCalls, dashVars >>

\* The response of getActiveOrders to the i-th request in flight.
fetchOrdersResolve(i, outcome) ==
    /\ i \in DOMAIN fetchCalls
    /\ outcome \in {"ok", "error"}
    /\ LET call == fetchCalls[i]
           data == getActiveOrders(call.rid, call.page, PageSize)
           transformed == [j \in DOMAIN data |-> transformOrder(data[j])]
       IN IF outcome = "ok"
          THEN /\ activeOrders' = IF call.reset THEN transformed
                                  ELSE activeOrders \o transformed
               /\ ordersPage' = IF call.reset THEN 0 ELSE call.page
               /\ hasMoreOrders' = HasMore(data)
               /\ lastPageLen' = Len(data)
               /\ lastOp' = Op("fetchOrders.ok", i)
          ELSE /\ UNCHANGED << activeOrders, ordersPage, hasMoreOrders, lastPageLen >>
               /\ lastOp' = Op("fetchOrders.failed", i)
    /\ isOrdersLoading' = FALSE
    /\ fetchCalls' = RemoveAt(fetchCalls, i)
    /\ UNCHANGED << sessionVars, cartVars, isUpdatingOrder, pageVars, dbVars, rtVars,
                    initTask, placeCalls, switchCalls, updateCalls, detailCalls, dashVars >>

\* ------------------------------------------------- the subscription effect
\* Variant: the previous channel is left open.
cleanupChannelsKeep == channels

\* return () => { supabase.removeChannel(channel) }
cleanupChannels == channels \ {effectRid}

\* The effect on [currentRestaurant?.id] re-runs when the id has changed: first
\* the clean-up of the previous run.
effectCleanup ==
    /\ effectPc = "idle"
    /\ CurrentId # effectRid
    /\ channels' = cleanupChannels
    /\ effectPc' = "setup"
    /\ lastOp' = Op("effect.cleanup", 0)
    /\ UNCHANGED << storeVars, pageVars, dbVars, effectRid, rtQueue, taskVars >>

\* fetchMenu up to its await, as the render that saw `empty` = (menuItems.length
\* === 0) runs it for restaurant rid: the stored snapshot is shown, then the
\* request is issued.
fetchMenuBegin(rid, empty) ==
    /\ menuItems' = IF menuCache[rid] # Null /\ empty THEN menuCache[rid].items
                    ELSE menuItems
    /\ menuCalls' = Append(menuCalls, [rid |-> rid, data |-> Null, newer |-> Null])

\* ... then its body: fetchMenu(), fetchOrders(true) and the subscription of the
\* channel.
effectSetup ==
    /\ effectPc = "setup"
    /\ IF CurrentId = NULL
       THEN UNCHANGED << channels, fetchCalls, isOrdersLoading, menuItems, menuCalls,
                         effectMenuEmpty >>
       ELSE /\ fetchMenuBegin(CurrentId, menuItems = <<>>)
            /\ effectMenuEmpty' = (menuItems = <<>>)
            /\ fetchCalls' = Append(fetchCalls, FetchRequest(TRUE))
            /\ isOrdersLoading' = TRUE
            /\ channels' = channels \cup {CurrentId}
    /\ effectRid' = CurrentId
    /\ effectPc' = "idle"
    /\ lastOp' = Op("effect.setup", 0)
    /\ UNCHANGED << sessionVars, cartVars, activeOrders, ordersPage, hasMoreOrders,
                    isUpdatingOrder, lastPageLen, location, authVars, dbMenu, menuCache,
                    menuWrites, dbVars, rtQueue,
                    initTask, placeCalls, switchCalls, updateCalls, detailCalls, dashVars >>

\* -------------------------------------------------------- realtime events
\* An UPDATE of an orders row reaches the subscribers of its restaurant's channel.
OrderEvents(row) ==
    IF row.restaurant_id \in channels
    THEN << [table |-> "orders", eventType |-> "UPDATE", channel |-> row.restaurant_id,
             new |-> row] >>
    ELSE <<>>

DbSetStatus(orderId, status) ==
    [i \in DOMAIN dbOrders |->
        IF dbOrders[i].id = orderId THEN [dbOrders[i] EXCEPT !.status = status]
        ELSE dbOrders[i]]

UpdateStatuses == {PREPARING}

\* Another client of the backend changes the status of an order.
backendOrderUpdate(orderId, status) ==
    /\ Len(rtQueue) < MaxQueue
    /\ \E i \in DOMAIN dbOrders :
          /\ dbOrders[i].id = orderId
          /\ dbOrders[i].status # status
          /\ rtQueue' = rtQueue \o OrderEvents([dbOrders[i] EXCEPT !.status = status])
    /\ dbOrders' = DbSetStatus(orderId, status)
    /\ lastOp' = Op("backend.update", 0)
    /\ UNCHANGED << storeVars, pageVars, dbTables, dbOrderItems, channels, effectRid,
                    effectPc, taskVars >>

\* Variant: the id of the event is not compared.
realtimeUpdateAll(prev, new) ==
    [i \in DOMAIN prev |-> [prev[i] EXCEPT !.status = new.status]]

\* prev.map(o => o.id === payload.new.id ? { ...o, status: payload.new.status } : o)
realtimeUpdate(prev, new) ==
    [i \in DOMAIN prev |->
        IF prev[i].id = new.id THEN [prev[i] EXCEPT !.status = new.status]
        ELSE prev[i]]

\* The first waiting event is delivered: to handleRealtimeOrder of its channel
\* when that channel is still open, to nobody otherwise.  An INSERT starts the
\* fetch of the order's details, an UPDATE patches the status of the entry.
handleRealtimeOrder ==
    /\ rtQueue # <<>>
    /\ Head(rtQueue).table = "orders"
    /\ LET payload == Head(rtQueue)
       IN IF payload.channel \notin channels
          THEN /\ UNCHANGED << activeOrders, detailCalls >>
               /\ lastOp' = Op("realtime.dropped", 0)
          ELSE IF payload.eventType = "INSERT"
          THEN /\ detailCalls' = Append(detailCalls,
                                        [orderId |-> payload.new.id, kind |-> "INSERT"])
               /\ UNCHANGED activeOrders
               /\ lastOp' = Op("realtime.INSERT", 0)
          ELSE /\ activeOrders' = realtimeUpdate(activeOrders, payload.new)
               /\ UNCHANGED detailCalls
               /\ lastOp' = Op("realtime.UPDATE", 0)
    /\ rtQueue' = Tail(rtQueue)
    /\ UNCHANGED << sessionVars, cartVars, ordersPage, hasMoreOrders, isOrdersLoading,
                    isUpdatingOrder, lastPageLen, pageVars, dbVars, channels,
                    effectRid, effectPc, initTask, placeCalls, switchCalls, updateCalls,
                    fetchCalls, dashVars >>

\* ------------------------------------------------------- updateOrderStatus
\* The optimistic updater.
optimisticUpdate(prev, orderId, status) ==
    [i \in DOMAIN prev |->
        IF prev[i].id = orderId THEN [prev[i] EXCEPT !.status = status]
        ELSE prev[i]]

\* updateOrderStatus up to its await.
updateOrderStatusCall(orderId, status) ==
    /\ UIReady
    /\ \E k \in FreeSlots(updateCalls) :
          /\ updateCalls' = [updateCalls EXCEPT ![k] =
                 [pc |-> "update", orderId |-> orderId, status |-> status,
                  previousOrders |-> activeOrders]]
          /\ lastOp' = Op("updateOrderStatus", k)
    /\ activeOrders' = optimisticUpdate(activeOrders, orderId, status)
    /\ isUpdatingOrder' = isUpdatingOrder \cup {orderId}
    /\ UNCHANGED << sessionVars, cartVars, ordersPage, hasMoreOrders, isOrdersLoading,
                    lastPageLen, pageVars, dbVars, rtVars,
                    initTask, placeCalls, switchCalls, fetchCalls, detailCalls >>

\* updateOrderStatus as a consumer of the store calls it.
updateOrderStatus(orderId, status) ==
    /\ updateOrderStatusCall(orderId, status)
    /\ UNCHANGED dashVars

\* Variant: only the status of the order concerned is put back.
revertStatusOnly(call) ==
    [i \in DOMAIN activeOrders |->
        IF activeOrders[i].id = call.orderId
        THEN [activeOrders[i] EXCEPT !.status =
                 (CHOOSE o \in {call.previousOrders[j] : j \in DOMAIN call.previousOrders} :
                     o.id = call.orderId).status]
        ELSE activeOrders[i]]

\* setActiveOrders(previousOrders)
revert(call) == call.previousOrders

\* The response of ordersApi.updateOrderStatus.
updateOrderStatusResolve(k, outcome) ==
    /\ updateCalls[k] # Idle
    /\ outcome \in {"ok", "error"}
    /\ LET call == updateCalls[k]
       IN /\ IF outcome = "ok"
             THEN /\ \E i \in DOMAIN dbOrders : dbOrders[i].id = call.orderId
                  /\ Len(rtQueue) < MaxQueue
                  /\ dbOrders' = DbSetStatus(call.orderId, call.status)
                  /\ rtQueue' = rtQueue \o OrderEvents(
                        [(CHOOSE o \in {dbOrders[i] : i \in DOMAIN dbOrders} :
                             o.id = call.orderId) EXCEPT !.status = call.status])
                  /\ UNCHANGED activeOrders
                  /\ lastOp' = Op("updateOrderStatus.ok", k)
             ELSE /\ activeOrders' = revert(call)
                  /\ UNCHANGED << dbOrders, rtQueue >>
                  /\ lastOp' = Op("updateOrderStatus.failed", k)
          /\ isUpdatingOrder' = isUpdatingOrder \ {call.orderId}
    /\ updateCalls' = [updateCalls EXCEPT ![k] = Idle]
    /\ UNCHANGED << sessionVars, cartVars, ordersPage, hasMoreOrders, isOrdersLoading,
                    lastPageLen, pageVars, dbTables, dbOrderItems, channels, effectRid,
                    effectPc, initTask, placeCalls, switchCalls, orderTaskVars >>

\* ----------------------------------------------------------- staff session
\* A dashboard opened on ?rid=R1 over a backend that already holds orders of
\* two restaurants.
StaffLocation == [search |-> [NoParams EXCEPT !.rid = "R1"], hash |-> NoParams]

StoredOrder(n, rid, amount) ==
    [id |-> "O" \o ToString(n), restaurant_id |-> rid, table_id |-> "T1",
     status |-> PENDING, total_amount |-> amount * Unit]

StaffOrders ==
    << StoredOrder(1, "R1", 105), StoredOrder(2, "R1", 210), StoredOrder(3, "R2", 315) >>

ExternalStatuses == {PAID}

\* The order that another client of the backend updates.
ExternalIds == {"O1"}

ListedIds == { activeOrders[i].id : i \in DOMAIN activeOrders }

InitStaff ==
    /\ InitStore
    /\ InitTasks
    /\ location = StaffLocation
    /\ dbTables = {Table5}
    /\ dbOrders = StaffOrders
    /\ dbOrderItems = <<>>
    /\ InitRealtime
    /\ InitGuest
    /\ InitNoMenu

NextStaff ==
    \/ initAppStart
    \/ \E o \in {"ok", "error"} : initAppSwitch(o)
    \/ initAppCont
    \/ initTask.pc # "cont" /\ effectCleanup
    \/ effectSetup
    \/ Settled /\ \E i \in 1..MaxFetchCalls, o \in {"ok", "error"} : fetchOrdersResolve(i, o)
    \/ Settled /\ \E id \in ListedIds, st \in UpdateStatuses : updateOrderStatus(id, st)
    \/ Settled /\ \E k \in DOMAIN updateCalls, o \in {"ok", "error"} :
                     updateOrderStatusResolve(k, o)
    \/ Settled /\ \E id \in ExternalIds, st \in ExternalStatuses : backendOrderUpdate(id, st)
    \/ Settled /\ handleRealtimeOrder
    \/ Settled /\ switchRestaurant("R2")
    \/ Settled /\ \E k \in DOMAIN switchCalls, o \in {"ok", "error"} :
                     switchRestaurantResolve(k, o)

SpecStaff == InitStaff /\ [][NextStaff]_vars

\* ------------------------------------------------------ paging through orders
\* A dashboard over a backend that holds a fixed number of orders of R1.
StoredCounts == {0, 5, PageSize, PageSize + 1, 2 * PageSize, MaxStored}

InitPages ==
    /\ InitStore
    /\ InitTasks
    /\ location = StaffLocation
    /\ dbTables = {Table5}
    /\ \E n \in StoredCounts : dbOrders = [i \in 1..n |-> StoredOrder(i, "R1", i)]
    /\ dbOrderItems = <<>>
    /\ InitRealtime
    /\ InitGuest
    /\ InitNoMenu

NextPages ==
    \/ initAppStart
    \/ \E o \in {"ok", "error"} : initAppSwitch(o)
    \/ initAppCont
    \/ initTask.pc # "cont" /\ effectCleanup
    \/ effectSetup
    \/ Settled /\ loadMoreOrders
    \/ Settled /\ \E i \in 1..MaxFetchCalls, o \in {"ok", "error"} : fetchOrdersResolve(i, o)

SpecPages == InitPages /\ [][NextPages]_vars

\* ----------------------------------------------------------------- the menu
\* Rows of menu_items.  deleted_at is the soft-delete marker.
MenuRow(id, rid, name, deletedAt) ==
    [id |-> id, restaurant_id |-> rid, name |-> name, in_stock |-> TRUE,
     deleted_at |-> deletedAt]

StoredMenu ==
    << MenuRow("M1", "R1", "soup", NULL), MenuRow("M2", "R1", "stew", "t0"),
       MenuRow("M3", "R2", "tea", NULL) >>

MenuRowsOf(menu, rid) == SelectSeq(menu, LAMBDA r : r.restaurant_id = rid)

MenuItemOf(dbItem) ==
    [id |-> dbItem.id, restaurantId |-> dbItem.restaurant_id, name |-> dbItem.name,
     inStock |-> dbItem.in_stock # FALSE]

\* Variant: the rows are mapped without the deleted_at filter.
transformMenuAll(data) ==
    [i \in DOMAIN data |-> MenuItemOf(data[i])]

\* data.filter(dbItem => !dbItem.deleted_at).map(...)
transformMenu(data) ==
    LET kept == SelectSeq(data, LAMBDA r : r.deleted_at = NULL)
    IN [i \in DOMAIN kept |-> MenuItemOf(kept[i])]

\* A change of menu_items rows of restaurant rid reaches the subscribers of its
\* channel (one event is queued per statement).
MenuEvents(rid) ==
    IF rid \in channels
    THEN << [table |-> "menu_items", eventType |-> "*", channel |-> rid, new |-> Null] >>
    ELSE <<>>

\* The first waiting event is a menu_items event: its channel's handler runs
\* fetchMenu() of the render that subscribed.
handleRealtimeMenu ==
    /\ rtQueue # <<>>
    /\ Head(rtQueue).table = "menu_items"
    /\ IF Head(rtQueue).channel \in channels
       THEN /\ Len(menuCalls) < MaxMenuCalls
            /\ fetchMenuBegin(Head(rtQueue).channel, effectMenuEmpty)
            /\ lastOp' = Op("realtime.menu", 0)
       ELSE /\ UNCHANGED << menuItems, menuCalls >>
            /\ lastOp' = Op("realtime.dropped", 0)
    /\ rtQueue' = Tail(rtQueue)
    /\ UNCHANGED << storeVars, location, authVars, effectMenuEmpty, dbMenu, menuCache,
                    menuWrites, dbVars, channels, effectRid, effectPc, taskVars >>

\* menuApi.getMenu(restaurantId): the rows of the restaurant, or an error.
getMenu(rid) == MenuRowsOf(dbMenu, rid)

\* fetchMenu after its await.
fetchMenuResolve(i, outcome) ==
    /\ i \in DOMAIN menuCalls
    /\ outcome \in {"ok", "error"}
    /\ IF outcome = "ok"
       THEN LET items == transformMenu(getMenu(menuCalls[i].rid))
            IN /\ menuItems' = items
               /\ menuCache' = [menuCache EXCEPT ![menuCalls[i].rid] = [items |-> items]]
               /\ lastOp' = [op |-> "fetchMenu.ok", k |-> i, rid |-> menuCalls[i].rid]
       ELSE /\ UNCHANGED << menuItems, menuCache >>
            /\ lastOp' = Op("fetchMenu.failed", i)
    /\ menuCalls' = RemoveAt(menuCalls, i)
    /\ UNCHANGED << storeVars, location, authVars, effectMenuEmpty, dbMenu, menuWrites,
                    dbVars, rtVars, taskVars >>

\* The time the soft delete writes.
DeletedAt == "t1"

\* update({ deleted_at }).eq('id', id)
SoftDelete(menu, id) ==
    [i \in DOMAIN menu |->
        IF menu[i].id = id THEN [menu[i] EXCEPT !.deleted_at = DeletedAt] ELSE menu[i]]

\* deleteMenuItem(id) up to its await.
deleteMenuItem(id) ==
    /\ UIReady
    /\ Len(menuWrites) < MaxMenuWrites
    /\ menuWrites' = Append(menuWrites, [op |-> "deleteMenuItem", pc |-> "update", id |-> id])
    /\ lastOp' = Op("deleteMenuItem", Len(menuWrites) + 1)
    /\ UNCHANGED << storeVars, location, authVars, menuItems, effectMenuEmpty, dbMenu,
                    menuCache, menuCalls, dbVars, rtVars, taskVars >>

\* The response of the update: on an error the function alerts and throws to
\* its caller.
deleteMenuItemResolve(k, outcome) ==
    /\ k \in DOMAIN menuWrites
    /\ menuWrites[k].op = "deleteMenuItem"
    /\ menuWrites[k].pc = "update"
    /\ outcome \in {"ok", "error"}
    /\ IF outcome = "ok"
       THEN /\ Len(rtQueue) < MaxQueue
            /\ dbMenu' = SoftDelete(dbMenu, menuWrites[k].id)
            /\ rtQueue' = rtQueue \o
                  (IF \E i \in DOMAIN dbMenu : dbMenu[i].id = menuWrites[k].id
                   THEN MenuEvents((CHOOSE r \in {dbMenu[i] : i \in DOMAIN dbMenu} :
                                       r.id = menuWrites[k].id).restaurant_id)
                   ELSE <<>>)
       ELSE UNCHANGED << dbMenu, rtQueue >>
    /\ menuWrites' = [menuWrites EXCEPT ![k].pc = IF outcome = "ok" THEN "done" ELSE "thrown"]
    /\ lastOp' = Op("deleteMenuItem." \o outcome, k)
    /\ UNCHANGED << storeVars, location, authVars, menuItems, effectMenuEmpty, menuCache,
                    menuCalls, dbVars, channels, effectRid, effectPc, taskVars >>

\* Variant: the delete has no restaurant filter.
DeleteMenuAll(menu, rid) == <<>>

\* delete().eq('restaurant_id', rid)
DeleteMenuOf(menu, rid) == SelectSeq(menu, LAMBDA r : r.restaurant_id # rid)

\* Lists handed to replaceMenu.
MenuLists == { <<>>, << [name |-> "rice", inStock |-> TRUE] >> }

\* Restaurant ids handed to replaceMenu (none: the current restaurant is meant).
ReplaceTargets == {NULL, "R1"}

\* itemsToInsert, with the ids the backend gives the rows of write k.
ItemsToInsert(k, items, rid) ==
    [j \in DOMAIN items |->
        [id |-> "W" \o ToString(k) \o "." \o ToString(j), restaurant_id |-> rid,
         name |-> items[j].name, in_stock |-> items[j].inStock, deleted_at |-> NULL]]

\* replaceMenu(items, targetRestaurantId) up to its first await.
replaceMenu(items, targetRestaurantId) ==
    /\ UIReady
    /\ LET rid == IF targetRestaurantId # NULL THEN targetRestaurantId ELSE CurrentId
       IN IF rid = NULL
          THEN /\ UNCHANGED menuWrites
               /\ lastOp' = [op |-> "replaceMenu.noop", k |-> 0,
                             target |-> targetRestaurantId]
          ELSE /\ Len(menuWrites) < MaxMenuWrites
               /\ menuWrites' = Append(menuWrites,
                     [op |-> "replaceMenu", pc |-> "delete", rid |-> rid, items |-> items])
               /\ lastOp' = [op |-> "replaceMenu", k |-> Len(menuWrites) + 1,
                             target |-> targetRestaurantId]
    /\ UNCHANGED << storeVars, location, authVars, menuItems, effectMenuEmpty, dbMenu,
                    menuCache, menuCalls, dbVars, rtVars, taskVars >>

\* The response of the delete.
replaceMenuDelete(k, outcome) ==
    /\ k \in DOMAIN menuWrites
    /\ menuWrites[k].op = "replaceMenu"
    /\ menuWrites[k].pc = "delete"
    /\ outcome \in {"ok", "error"}
    /\ IF outcome = "ok"
       THEN /\ Len(rtQueue) < MaxQueue
            /\ dbMenu' = DeleteMenuOf(dbMenu, menuWrites[k].rid)
            /\ rtQueue' = rtQueue \o
                  (IF dbMenu' # dbMenu THEN MenuEvents(menuWrites[k].rid) ELSE <<>>)
            /\ menuWrites' = [menuWrites EXCEPT ![k].pc = "insert"]
       ELSE /\ UNCHANGED << dbMenu, rtQueue >>
            /\ menuWrites' = [menuWrites EXCEPT ![k].pc = "done"]
    /\ lastOp' = Op("replaceMenu.delete." \o outcome, k)
    /\ UNCHANGED << storeVars, location, authVars, menuItems, effectMenuEmpty, menuCache,
                    menuCalls, dbVars, channels, effectRid, effectPc, taskVars >>

\* The response of the insert.
replaceMenuInsert(k, outcome) ==
    /\ k \in DOMAIN menuWrites
    /\ menuWrites[k].op = "replaceMenu"
    /\ menuWrites[k].pc = "insert"
    /\ outcome \in {"ok", "error"}
    /\ IF outcome = "ok"
       THEN /\ Len(rtQueue) < MaxQueue
            /\ dbMenu' = dbMenu \o
                  ItemsToInsert(k, menuWrites[k].items, menuWrites[k].rid)
            /\ rtQueue' = rtQueue \o
                  (IF dbMenu' # dbMenu THEN MenuEvents(menuWrites[k].rid) ELSE <<>>)
       ELSE UNCHANGED << dbMenu, rtQueue >>
    /\ menuWrites' = [menuWrites EXCEPT ![k].pc = "done"]
    /\ lastOp' = Op("replaceMenu.insert." \o outcome, k)
    /\ UNCHANGED << storeVars, location, authVars, menuItems, effectMenuEmpty, menuCache,
                    menuCalls, dbVars, channels, effectRid, effectPc, taskVars >>

\* --------------------------------------------------------- menu management
\* A signed-in admin linked to R1 opens the page; the backend holds menu rows of
\* two restaurants, one of them soft-deleted, and the browser may hold the
\* snapshot an earlier visit stored.
StoredSnapshot ==
    [items |-> << MenuItemOf(StoredMenu[1]), MenuItemOf(StoredMenu[2]) >>]

InitMenu ==
    /\ InitStore
    /\ InitTasks
    /\ location = [search |-> NoParams, hash |-> NoParams]
    /\ dbTables = {}
    /\ dbOrders = <<>>
    /\ dbOrderItems = <<>>
    /\ InitRealtime
    /\ InitMenuStore
    /\ dbMenu = StoredMenu
    /\ menuCache \in { [r \in DOMAIN dbRestaurants |-> Null],
                       [r \in DOMAIN dbRestaurants |->
                           IF r = "R1" THEN StoredSnapshot ELSE Null] }
    /\ user = NULL
    /\ profile = Null
    /\ session = "U1"
    /\ dbProfile = AdminLinkedProfile
    /\ authPc = [getSession |-> TRUE, initialEvent |-> FALSE]
    /\ profileCalls = <<>>
    /\ unloaded = FALSE

ShownIds == { menuItems[i].id : i \in DOMAIN menuItems }

NextMenu ==
    \/ initAppStart
    \/ Running /\ getSessionThen
    \/ Running /\ \E k \in DOMAIN profileCalls, o \in {"data", "error", "none"} :
                     fetchProfileResolve(k, o)
    \/ Running /\ \E k \in DOMAIN profileCalls, o \in {"ok", "error"} :
                     fetchProfileSwitch(k, o)
    \/ Running /\ \E k \in DOMAIN profileCalls : handleLogout(k)
    \/ Running /\ effectCleanup
    \/ ~unloaded /\ effectSetup
    \/ Running /\ \E i \in 1..MaxMenuCalls, o \in {"ok", "error"} : fetchMenuResolve(i, o)
    \/ Running /\ handleRealtimeMenu
    \/ Running /\ \E id \in ShownIds : deleteMenuItem(id)
    \/ Running /\ \E k \in 1..MaxMenuWrites, o \in {"ok", "error"} :
                     deleteMenuItemResolve(k, o)
    \/ Running /\ \E items \in MenuLists, t \in ReplaceTargets : replaceMenu(items, t)
    \/ Running /\ \E k \in 1..MaxMenuWrites, o \in {"ok", "error"} : replaceMenuDelete(k, o)
    \/ Running /\ \E k \in 1..MaxMenuWrites, o \in {"ok", "error"} : replaceMenuInsert(k, o)

SpecMenu == InitMenu /\ [][NextMenu]_vars

\* ------------------------------------------------ menu fetches in flight
\* The backend answers a getMenu request with the rows it holds when it runs the
\* select; the response reaches the page later.
fetchMenuServe(i) ==
    /\ i \in DOMAIN menuCalls
    /\ menuCalls[i].data = Null
    /\ menuCalls' = [menuCalls EXCEPT ![i].data = [rows |-> getMenu(menuCalls[i].rid)]]
    /\ lastOp' = Op("getMenu", i)
    /\ UNCHANGED << storeVars, location, authVars, menuItems, effectMenuEmpty, dbMenu,
                    menuCache, menuWrites, dbVars, rtVars, taskVars >>

\* The requests issued before request i that are still in flight learn that a
\* later request of the same restaurant has been answered with `items` (kept to
\* state what a late response overwrites).
MarkOlder(i, items) ==
    [j \in DOMAIN menuCalls |->
        IF j < i /\ menuCalls[j].rid = menuCalls[i].rid /\ menuCalls[j].newer = Null
        THEN [menuCalls[j] EXCEPT !.newer =
                 IF menuCalls[i].newer # Null THEN menuCalls[i].newer
                 ELSE [items |-> items]]
        ELSE menuCalls[j]]

\* fetchMenu after its await, on the response of request i.
fetchMenuDeliver(i, outcome) ==
    /\ i \in DOMAIN menuCalls
    /\ menuCalls[i].data # Null
    /\ outcome \in {"ok", "error"}
    /\ IF outcome = "ok"
       THEN LET items == transformMenu(menuCalls[i].data.rows)
            IN /\ menuItems' = items
               /\ menuCache' = [menuCache EXCEPT ![menuCalls[i].rid] = [items |-> items]]
               /\ menuCalls' = RemoveAt(MarkOlder(i, items), i)
               /\ lastOp' = [op |-> "fetchMenu.ok", k |-> i, rid |-> menuCalls[i].rid]
       ELSE /\ UNCHANGED << menuItems, menuCache >>
            /\ menuCalls' = RemoveAt(menuCalls, i)
            /\ lastOp' = Op("fetchMenu.failed", i)
    /\ UNCHANGED << storeVars, location, authVars, effectMenuEmpty, dbMenu, menuWrites,
                    dbVars, rtVars, taskVars >>

\* The name another client of the backend gives an item.
NewName == "broth"

\* Another client of the backend renames a menu item.
backendMenuChange(id) ==
    /\ Len(rtQueue) < MaxQueue
    /\ \E i \in DOMAIN dbMenu :
          /\ dbMenu[i].id = id
          /\ dbMenu[i].name # NewName
          /\ dbMenu' = [dbMenu EXCEPT ![i].name = NewName]
          /\ rtQueue' = rtQueue \o MenuEvents(dbMenu[i].restaurant_id)
    /\ lastOp' = Op("backend.menu", 0)
    /\ UNCHANGED << storeVars, location, authVars, menuItems, effectMenuEmpty, menuCache,
                    menuCalls, menuWrites, dbVars, channels, effectRid, effectPc, taskVars >>

\* The snapshots an earlier visit of each restaurant stored.
StoredSnapshots ==
    [r \in DOMAIN dbRestaurants |->
        IF r = "R1" THEN StoredSnapshot ELSE [items |-> << MenuItemOf(StoredMenu[3]) >>]]

\* The items another client renames.
ExternalMenuIds == {"M1"}

\* A page opened on ?rid=R1 that later switches to R2, while another client
\* changes the menu.
InitMenuSync ==
    /\ InitStore
    /\ InitTasks
    /\ location = StaffLocation
    /\ dbTables = {}
    /\ dbOrders = <<>>
    /\ dbOrderItems = <<>>
    /\ InitRealtime
    /\ InitGuest
    /\ InitMenuStore
    /\ dbMenu = StoredMenu
    /\ menuCache \in { [r \in DOMAIN dbRestaurants |-> Null], StoredSnapshots }

NextMenuSync ==
    \/ initAppStart
    \/ \E o \in {"ok", "error"} : initAppSwitch(o)
    \/ initAppCont
    \/ initTask.pc # "cont" /\ effectCleanup
    \/ effectSetup
    \/ Settled /\ \E i \in 1..(MaxMenuCalls + 1) : fetchMenuServe(i)
    \/ Settled /\ \E i \in 1..(MaxMenuCalls + 1), o \in {"ok", "error"} : fetchMenuDeliver(i, o)
    \/ Settled /\ \E id \in ExternalMenuIds : backendMenuChange(id)
    \/ Settled /\ handleRealtimeMenu
    \/ Settled /\ switchRestaurant("R2")
    \/ Settled /\ \E k \in DOMAIN switchCalls, o \in {"ok", "error"} :
                     switchRestaurantResolve(k, o)

SpecMenuSync == InitMenuSync /\ [][NextMenuSync]_vars

\* ----------------------------------------------------- new orders arriving
\* Bounds on what other clients of the backend add during a session.
MaxNewOrders == 1
MaxNewItems == 1

\* An INSERT of an orders row reaches the subscribers of its restaurant's channel.
InsertEvents(row) ==
    IF row.restaurant_id \in channels
    THEN << [table |-> "orders", eventType |-> "INSERT", channel |-> row.restaurant_id,
             new |-> row] >>
    ELSE <<>>

\* The order_items subscription has no filter: an INSERT of any restaurant's
\* item reaches the open channel.
ItemEvents(row) ==
    IF channels # {}
    THEN << [table |-> "order_items", eventType |-> "INSERT",
             channel |-> CHOOSE c \in channels : TRUE, new |-> row] >>
    ELSE <<>>

\* A guest of restaurant rid places an order from another browser.
backendOrderInsert(rid) ==
    /\ Len(rtQueue) < MaxQueue
    /\ Len(dbOrders) < Len(StaffOrders) + MaxNewOrders
    /\ LET row == StoredOrder(Len(dbOrders) + 1, rid, 100)
       IN /\ dbOrders' = Append(dbOrders, row)
          /\ rtQueue' = rtQueue \o InsertEvents(row)
    /\ lastOp' = Op("backend.insert", 0)
    /\ UNCHANGED << storeVars, pageVars, dbTables, dbOrderItems, channels, effectRid,
                    effectPc, taskVars >>

\* Another client adds an item to the order orderId.
backendItemInsert(orderId) ==
    /\ Len(rtQueue) < MaxQueue
    /\ Len(dbOrderItems) < MaxNewItems
    /\ LET row == [order_id |-> orderId, menu_item_id |-> "A", quantity |-> 1,
                   price |-> 100 * Unit]
       IN /\ dbOrderItems' = Append(dbOrderItems, row)
          /\ rtQueue' = rtQueue \o ItemEvents(row)
    /\ lastOp' = Op("backend.item", 0)
    /\ UNCHANGED << storeVars, pageVars, dbTables, dbOrders, channels, effectRid,
                    effectPc, taskVars >>

\* The order_items handler up to its await.
handleRealtimeItem ==
    /\ rtQueue # <<>>
    /\ Head(rtQueue).table = "order_items"
    /\ LET payload == Head(rtQueue)
       IN IF payload.channel \in channels
          THEN /\ detailCalls' = Append(detailCalls,
                                        [orderId |-> payload.new.order_id, kind |-> "ITEM"])
               /\ lastOp' = Op("realtime.item", 0)
          ELSE /\ UNCHANGED detailCalls
               /\ lastOp' = Op("realtime.dropped", 0)
    /\ rtQueue' = Tail(rtQueue)
    /\ UNCHANGED << storeVars, pageVars, dbVars, channels, effectRid, effectPc,
                    initTask, placeCalls, switchCalls, updateCalls, fetchCalls, dashVars >>

\* ordersApi.getOrderById(id): the row with its relations, or no data.
getOrderById(id) ==
    SelectSeq(dbOrders, LAMBDA o : o.id = id)

\* setActiveOrders(prev => [newOrder, ...prev])
prepend(newOrder, prev) == << newOrder >> \o prev

\* prev.map(o => o.id === updatedOrder.id ? updatedOrder : o)
replaceOrder(updatedOrder, prev) ==
    [i \in DOMAIN prev |-> IF prev[i].id = updatedOrder.id THEN updatedOrder ELSE prev[i]]

\* The response of getOrderById to the i-th handler waiting for it.
getOrderByIdResolve(i, outcome) ==
    /\ i \in DOMAIN detailCalls
    /\ outcome \in {"ok", "error"}
    /\ LET call == detailCalls[i]
           data == getOrderById(call.orderId)
       IN IF outcome = "ok" /\ data # <<>>
          THEN /\ activeOrders' = IF call.kind = "INSERT"
                                  THEN prepend(transformOrder(data[1]), activeOrders)
                                  ELSE replaceOrder(transformOrder(data[1]), activeOrders)
               /\ lastOp' = [op |-> "getOrderById.ok", k |-> i, kind |-> call.kind,
                             id |-> call.orderId]
          ELSE /\ UNCHANGED activeOrders
               /\ lastOp' = Op("getOrderById.failed", i)
    /\ detailCalls' = RemoveAt(detailCalls, i)
    /\ UNCHANGED << sessionVars, cartVars, ordersPage, hasMoreOrders, isOrdersLoading,
                    isUpdatingOrder, lastPageLen, pageVars, dbVars, rtVars,
                    initTask, placeCalls, switchCalls, updateCalls, fetchCalls, dashVars >>

\* The restaurant whose guests place orders meanwhile, and the order that gets
\* another item.
OrderingRestaurants == {"R1"}
ItemOrderIds == {"O1"}

NextArrivals ==
    \/ initAppStart
    \/ \E o \in {"ok", "error"} : initAppSwitch(o)
    \/ initAppCont
    \/ initTask.pc # "cont" /\ effectCleanup
    \/ effectSetup
    \/ Settled /\ \E i \in 1..MaxFetchCalls, o \in {"ok", "error"} : fetchOrdersResolve(i, o)
    \/ Settled /\ \E rid \in OrderingRestaurants : backendOrderInsert(rid)
    \/ Settled /\ \E id \in ItemOrderIds : backendItemInsert(id)
    \/ Settled /\ handleRealtimeOrder
    \/ Settled /\ handleRealtimeItem
    \/ Settled /\ \E i \in 1..(MaxNewOrders + MaxNewItems), o \in {"ok", "error"} :
                     getOrderByIdResolve(i, o)
    \/ Settled /\ switchRestaurant("R2")
    \/ Settled /\ \E k \in DOMAIN switchCalls, o \in {"ok", "error"} :
                     switchRestaurantResolve(k, o)

SpecArrivals == InitStaff /\ [][NextArrivals]_vars

\* ------------------------------------------------ the dashboard's order cards
READY == "READY"
SERVED == "SERVED"
CANCELLED == "CANCELLED"

\* Calls of updateOrderStatus the dashboard session may have in flight.
MaxOverlap == 2

\* The status the card's primary button writes for an order shown as `status`
\* (Accept Order, Mark Ready, Mark Served, Mark Paid), NULL where the card has
\* no such button.
NextStatus(status) ==
    CASE status = PENDING -> PREPARING
      [] status = PREPARING -> READY
      [] status = READY -> SERVED
      [] status = SERVED -> PAID
      [] OTHER -> NULL

\* The card shows "Cancel Order".
Cancellable(status) == status \in {PENDING, PREPARING}

\* The dashboard is on screen and no modal covers the cards.
CardsClickable == AdminDashboardShown /\ UIReady /\ ~isCancelOrderModalOpen

\* onClick of the primary button of the card of the i-th order.
advanceOrder(i) ==
    /\ CardsClickable
    /\ i \in DOMAIN activeOrders
    /\ NextStatus(activeOrders[i].status) # NULL
    /\ activeOrders[i].id \notin isUpdatingOrder
    /\ updateOrderStatusCall(activeOrders[i].id, NextStatus(activeOrders[i].status))
    /\ UNCHANGED dashVars

handleCancelOrderClick(i) ==
    /\ CardsClickable
    /\ i \in DOMAIN activeOrders
    /\ Cancellable(activeOrders[i].status)
    /\ orderToCancel' = activeOrders[i].id
    /\ isCancelOrderModalOpen' = TRUE
    /\ lastOp' = Op("cancel.click", i)
    /\ UNCHANGED << storeVars, pageVars, dbVars, rtVars, initTask, placeCalls, switchCalls,
                    updateCalls, fetchCalls, detailCalls, qrTable, qrTableId, qrCalls >>

\* "Keep Order": onClick={() => setIsCancelOrderModalOpen(false)}
keepOrder ==
    /\ AdminDashboardShown
    /\ isCancelOrderModalOpen
    /\ isCancelOrderModalOpen' = FALSE
    /\ lastOp' = Op("cancel.keep", 0)
    /\ UNCHANGED << storeVars, pageVars, dbVars, rtVars, initTask, placeCalls, switchCalls,
                    updateCalls, fetchCalls, detailCalls, orderToCancel, qrTable, qrTableId,
                    qrCalls >>

\* "Yes, Cancel"
confirmCancelOrder ==
    /\ AdminDashboardShown
    /\ isCancelOrderModalOpen
    /\ orderToCancel # NULL
    /\ updateOrderStatusCall(orderToCancel, CANCELLED)
    /\ orderToCancel' = NULL
    /\ isCancelOrderModalOpen' = FALSE
    /\ UNCHANGED << qrTable, qrTableId, qrCalls >>

\* The orders of R1 when the admin opens the dashboard: a new one and one that
\* has been served.
DeskOrders ==
    << StoredOrder(1, "R1", 105), [StoredOrder(2, "R1", 210) EXCEPT !.status = SERVED] >>

\* What another member of staff does meanwhile: marks O1 as served.
DeskExternalIds == {"O1"}
DeskExternalStatuses == {SERVED}

\* A signed-in admin linked to R1 opens the site.
InitDesk ==
    /\ InitStore
    /\ initTask = [pc |-> "start"]
    /\ placeCalls = << Idle >>
    /\ switchCalls = << Idle >>
    /\ updateCalls = [k \in 1..MaxOverlap |-> Idle]
    /\ fetchCalls = <<>>
    /\ detailCalls = <<>>
    /\ InitDashboard
    /\ lastOp = Op("mount", 0)
    /\ location = [search |-> NoParams, hash |-> NoParams]
    /\ dbTables = {Table5}
    /\ dbOrders = DeskOrders
    /\ dbOrderItems = <<>>
    /\ InitRealtime
    /\ InitNoMenu
    /\ user = NULL
    /\ profile = Null
    /\ session = "U1"
    /\ dbProfile = AdminLinkedProfile
    /\ authPc = [getSession |-> TRUE, initialEvent |-> FALSE]
    /\ profileCalls = <<>>
    /\ unloaded = FALSE

NextDesk ==
    \/ initAppStart
    \/ Running /\ getSessionThen
    \/ Running /\ \E k \in DOMAIN profileCalls, o \in {"data", "error", "none"} :
                     fetchProfileResolve(k, o)
    \/ Running /\ \E k \in DOMAIN profileCalls, o \in {"ok", "error"} :
                     fetchProfileSwitch(k, o)
    \/ Running /\ \E k \in DOMAIN profileCalls : handleLogout(k)
    \/ Running /\ effectCleanup
    \/ ~unloaded /\ effectSetup
    \/ Running /\ \E i \in 1..MaxFetchCalls, o \in {"ok", "error"} : fetchOrdersResolve(i, o)
    \/ Running /\ \E i \in 1..Len(DeskOrders) : advanceOrder(i)
    \/ Running /\ \E i \in 1..Len(DeskOrders) : handleCancelOrderClick(i)
    \/ Running /\ keepOrder
    \/ Running /\ confirmCancelOrder
    \/ Running /\ \E k \in DOMAIN updateCalls, o \in {"ok", "error"} :
                     updateOrderStatusResolve(k, o)
    \/ Running /\ \E id \in DeskExternalIds, st \in DeskExternalStatuses :
                     backendOrderUpdate(id, st)
    \/ Running /\ handleRealtimeOrder

SpecDesk == InitDesk /\ [][NextDesk]_vars

\* ------------------------------------------------- the session ends elsewhere
\* The user's session ends outside this page (sign-out in another tab, a
\* revoked or expired token): the listener's callback runs without a session.
onSignedOut ==
    /\ initTask.pc # "start"
    /\ session # NULL
    /\ session' = NULL
    /\ user' = NULL
    /\ profile' = Null
    /\ isAdmin' = FALSE
    /\ lastOp' = Op("onAuthStateChange.signedOut", 0)
    /\ UNCHANGED << viewMode, isLoading, error, currentRestaurant, tableId, tableNumber,
                    cartVars, orderVars, location, dbProfile, authPc, profileCalls,
                    unloaded, menuVars, dbVars, rtVars, taskVars >>

NextSignOut ==
    \/ NextAuth
    \/ Running /\ onSignedOut

SpecSignOut == InitAuth /\ [][NextSignOut]_vars

\* ------------------------------------------------ staff scanning a table code
\* An admin whose profile is linked to another restaurant than the one of the
\* scanned code.
AdminElsewhereProfile == [role |-> "admin", current_restaurant_id |-> "R2"]

\* A signed-in member of staff opens a page location.
InitTableAdmin ==
    /\ InitStore
    /\ InitTasks
    /\ location \in Locations
    /\ dbTables \in {{}, {Table5}}
    /\ dbOrders = <<>>
    /\ dbOrderItems = <<>>
    /\ InitRealtime
    /\ InitNoMenu
    /\ user = NULL
    /\ profile = Null
    /\ session = "U1"
    /\ dbProfile \in {AdminElsewhereProfile, [role |-> "admin", current_restaurant_id |-> NULL]}
    /\ authPc = [getSession |-> TRUE, initialEvent |-> TRUE]
    /\ profileCalls = <<>>
    /\ unloaded = FALSE

SpecTableAdmin == InitTableAdmin /\ [][NextAuth]_vars

\* ------------------------------------------------------ the QR generator
\* Characters the admin types into "Table No.", and the longest text.
Chars == {"a", "A", "&", "+"}
MaxNumberLen == 2
MaxQrCalls == 1
MaxTables == 2

Texts == UNION { [1..n -> Chars] : n \in 1..MaxNumberLen }

\* Case folding of ilike.
Lower(c) == IF c = "A" THEN "a" ELSE c
LowerAll(text) == [i \in DOMAIN text |-> Lower(text[i])]

\* .eq('restaurant_id', id).ilike('table_number', qrTable): the rows whose
\* number equals the text up to case (Chars holds none of ilike's wildcards).
ILikeRows(restaurantId, text) ==
    { t \in dbTables : t.restaurant_id = restaurantId
                       /\ LowerAll(t.table_number) = LowerAll(text) }

\* The query of `/#/ ?rid=${currentRestaurant.id}&table=${qrTable}&tableId=${qrTableId}`:
\* the text is put into the URL as typed.
QRQuery(rid, text, id) ==
    << "rid", "=", rid, "&", "table", "=" >> \o text \o << "&", "tableId", "=", id >>

\* Position of the first `sep` in s, Len(s) + 1 when there is none.
RECURSIVE IndexOf(_, _, _)
IndexOf(s, sep, i) ==
    IF i > Len(s) THEN Len(s) + 1
    ELSE IF s[i] = sep THEN i ELSE IndexOf(s, sep, i + 1)

\* The pieces of s between the occurrences of sep.
RECURSIVE Split(_, _)
Split(s, sep) ==
    LET i == IndexOf(s, sep, 1)
    IN IF i > Len(s) THEN << s >>
       ELSE << SubSeq(s, 1, i - 1) >> \o Split(SubSeq(s, i + 1, Len(s)), sep)

\* URLSearchParams decodes "+" as a space.
DecodeValue(v) == [i \in DOMAIN v |-> IF v[i] = "+" THEN " " ELSE v[i]]

\* new URLSearchParams(query).get(name) as the code's `if (... .get(name))`
\* sees it: the decoded value of the first name=value pair of that name, the
\* empty text when there is none (null and '' are both falsy).
SearchParam(query, name) ==
    LET pairs == Split(query, "&")
        named == SelectSeq(pairs,
                     LAMBDA pr : SubSeq(pr, 1, IndexOf(pr, "=", 1) - 1) = << name >>)
    IN IF named = <<>> THEN <<>>
       ELSE DecodeValue(SubSeq(named[1], IndexOf(named[1], "=", 1) + 1, Len(named[1])))

\* resolveTableId as a guest runs it: the row of that exact number; the insert
\* of a missing row is refused to a caller who is not staff.
GuestTableId(rid, number) ==
    IF rid = <<>> \/ number = <<>> THEN NULL
    ELSE IF TableRows(rid[1], number) # {} THEN SelectedTableId(rid[1], number)
    ELSE NULL

\* onChange={(e) => setQrTable(e.target.value)} and the effect on [qrTable]:
\* the pending timer is cleared and a new one is set.
setQrTable(text) ==
    /\ AdminDashboardShown
    /\ text # qrTable
    /\ Len(SelectSeq(qrCalls, LAMBDA c : c.pc # "resolved")) < MaxQrCalls
    /\ qrTable' = text
    /\ qrCalls' = SelectSeq(qrCalls, LAMBDA c : c.pc # "timer")
                     \o << [pc |-> "timer", number |-> text] >>
    /\ lastOp' = Op("setQrTable", 0)
    /\ UNCHANGED << storeVars, pageVars, dbVars, rtVars, initTask, placeCalls, switchCalls,
                    updateCalls, fetchCalls, detailCalls, orderToCancel,
                    isCancelOrderModalOpen, qrTableId >>

\* resolveQRTable up to its select, when the 500 ms have passed.
resolveQRTable(i) ==
    /\ i \in DOMAIN qrCalls
    /\ qrCalls[i].pc = "timer"
    /\ IF qrCalls[i].number = <<>> \/ currentRestaurant = Null
       THEN /\ qrTableId' = NULL
            /\ qrCalls' = SelectSeq(RemoveAt(qrCalls, i), LAMBDA c : c.pc # "resolved")
       ELSE /\ qrCalls' = [qrCalls EXCEPT ![i] =
                              [pc |-> "select", number |-> qrCalls[i].number,
                               rid |-> currentRestaurant.id]]
            /\ UNCHANGED qrTableId
    /\ lastOp' = Op("resolveQRTable", i)
    /\ UNCHANGED << storeVars, pageVars, dbVars, rtVars, initTask, placeCalls, switchCalls,
                    updateCalls, fetchCalls, detailCalls, orderToCancel,
                    isCancelOrderModalOpen, qrTable >>

\* The entries left when call i has set qrTableId for its text.
QrResolved(i) ==
    SelectSeq(RemoveAt(qrCalls, i), LAMBDA c : c.pc # "resolved")
       \o << [pc |-> "resolved", number |-> qrCalls[i].number] >>

\* The response of the select: maybeSingle gives the row when exactly one
\* matches, no data otherwise; a thrown failure is logged.
resolveQRTableSelect(i, outcome) ==
    /\ i \in DOMAIN qrCalls
    /\ qrCalls[i].pc = "select"
    /\ outcome \in {"answer", "throw"}
    /\ LET call == qrCalls[i]
           rows == ILikeRows(call.rid, call.number)
       IN IF outcome = "throw"
          THEN /\ qrCalls' = RemoveAt(qrCalls, i)
               /\ UNCHANGED qrTableId
          ELSE IF Cardinality(rows) = 1
          THEN /\ qrTableId' = (CHOOSE t \in rows : TRUE).id
               /\ qrCalls' = QrResolved(i)
          ELSE /\ qrCalls' = [qrCalls EXCEPT ![i].pc = "insert"]
               /\ UNCHANGED qrTableId
    /\ lastOp' = [op |-> "resolveQRTable.select", k |-> i, outcome |-> outcome]
    /\ UNCHANGED << storeVars, pageVars, dbVars, rtVars, initTask, placeCalls, switchCalls,
                    updateCalls, fetchCalls, detailCalls, orderToCancel,
                    isCancelOrderModalOpen, qrTable >>

\* The response of the insert.
resolveQRTableInsert(i, outcome) ==
    /\ i \in DOMAIN qrCalls
    /\ qrCalls[i].pc = "insert"
    /\ outcome \in InsertTableOutcomes(qrCalls[i].rid, qrCalls[i].number)
    /\ outcome = "ok" => Cardinality(dbTables) < MaxTables
    /\ IF outcome = "ok"
       THEN /\ dbTables' = dbTables \cup {NewTableRow(qrCalls[i].rid, qrCalls[i].number)}
            /\ qrTableId' = NewTableId
            /\ qrCalls' = QrResolved(i)
       ELSE /\ UNCHANGED << dbTables, qrTableId >>
            /\ qrCalls' = RemoveAt(qrCalls, i)
    /\ lastOp' = [op |-> "resolveQRTable.insert", k |-> i, outcome |-> outcome]
    /\ UNCHANGED << storeVars, pageVars, dbOrders, dbOrderItems, rtVars, initTask,
                    placeCalls, switchCalls, updateCalls, fetchCalls, detailCalls,
                    orderToCancel, isCancelOrderModalOpen, qrTable >>

\* A guest scans the code on screen: parseURLParams reads the query of the
\* hash and resolves the table.
scanQR ==
    /\ AdminDashboardShown
    /\ qrTable # <<>>
    /\ qrTableId # NULL
    /\ LET query == QRQuery(currentRestaurant.id, qrTable, qrTableId)
           rid == SearchParam(query, "rid")
           number == SearchParam(query, "table")
       IN lastOp' = [op |-> "scan", k |-> 0, rid |-> rid, tableNumber |-> number,
                     tableId |-> GuestTableId(rid, number),
                     embedded |-> SearchParam(query, "tableId")]
    /\ UNCHANGED << storeVars, pageVars, dbVars, rtVars, taskVars >>

\* The table of R1 that exists before the admin opens the generator.
TableA == [id |-> "T1", restaurant_id |-> "R1", table_number |-> << "A" >>]

\* A signed-in admin linked to R1 opens the site and goes to the generator.
InitQR ==
    /\ InitStore
    /\ InitTasks
    /\ location = [search |-> NoParams, hash |-> NoParams]
    /\ dbTables \in {{}, {TableA}}
    /\ dbOrders = <<>>
    /\ dbOrderItems = <<>>
    /\ InitRealtime
    /\ InitNoMenu
    /\ user = NULL
    /\ profile = Null
    /\ session = "U1"
    /\ dbProfile = AdminLinkedProfile
    /\ authPc = [getSession |-> TRUE, initialEvent |-> FALSE]
    /\ profileCalls = <<>>
    /\ unloaded = FALSE

NextQR ==
    \/ initAppStart
    \/ Running /\ getSessionThen
    \/ Running /\ \E k \in DOMAIN profileCalls, o \in {"data", "error", "none"} :
                     fetchProfileResolve(k, o)
    \/ Running /\ \E k \in DOMAIN profileCalls, o \in {"ok", "error"} :
                     fetchProfileSwitch(k, o)
    \/ Running /\ \E k \in DOMAIN profileCalls : handleLogout(k)
    \/ Running /\ \E text \in Texts \cup {<<>>} : setQrTable(text)
    \/ Running /\ \E i \in 1..(MaxQrCalls + 1) : resolveQRTable(i)
    \/ Running /\ \E i \in 1..(MaxQrCalls + 1), o \in {"answer", "throw"} :
                     resolveQRTableSelect(i, o)
    \/ Running /\ \E i \in 1..(MaxQrCalls + 1), o \in CreateOutcomes :
                     resolveQRTableInsert(i, o)
    \/ Running /\ scanQR

SpecQR == InitQR /\ [][NextQR]_vars

\* ======================================================================
\* Properties
\* ======================================================================

LineOf(itemId, price, quantity) ==
    [id |-> itemId, price |-> price, inStock |-> TRUE, quantity |-> quantity]

\* The fields a placeOrder call may write besides its own task.
PlaceOrderFrame ==
    << sessionVars, cartVars, orderVars, dbVars, rtVars, taskVars >>

\* C1: the cart never holds two lines with the same item id and never holds a
\* line with quantity <= 0.
C1_CartWellFormed ==
    /\ \A i, j \in DOMAIN cart : i # j => cart[i].id # cart[j].id
    /\ \A i \in DOMAIN cart : cart[i].quantity > 0

\* A cart of two lines, one driven to the largest quantity, left by updateQuantity.
C1_Witness ==
    /\ lastOp.op = "updateQuantity"
    /\ Len(cart) = 2
    /\ \E i \in DOMAIN cart : cart[i].quantity = MaxQty

\* C2 (as stated): placeOrder with an empty cart, no current restaurant or
\* tableId null writes nothing: no store field, no backend table and no request
\* in flight changes.
C2_NoOpOnTableIdNull ==
    [][ (lastOp'.op \in {"placeOrder", "placeOrder.noop"}
         /\ (Len(cart) = 0 \/ currentRestaurant = Null \/ tableId = NULL))
        => UNCHANGED PlaceOrderFrame ]_vars

\* C2 (amended): placeOrder with an empty cart, no current restaurant or no
\* table number (tableNumber null) writes nothing: no store field, no backend
\* table and no request in flight changes.
C2_NoOpOnTableNumberNull ==
    [][ (lastOp'.op \in {"placeOrder", "placeOrder.noop"}
         /\ (Len(cart) = 0 \/ currentRestaurant = Null \/ tableNumber = NULL))
        => UNCHANGED PlaceOrderFrame ]_vars

\* placeOrder has returned early for the missing table alone.
C2_Witness ==
    /\ lastOp.op = "placeOrder.noop"
    /\ Len(cart) > 0
    /\ currentRestaurant # Null
    /\ tableNumber = NULL

\* C7: a switchRestaurant(id) that succeeds sets currentRestaurant to the row
\* fetched for id, empties the cart and clears lastOrder; one that fails (error
\* or no row) leaves currentRestaurant, cart, lastOrder and viewMode as they
\* were, and so does the call itself up to its await.
C7_SwitchRestaurant ==
    [][ LET id == IF lastOp'.k = 0 THEN initTask.rid ELSE switchCalls[lastOp'.k].id
        IN /\ lastOp'.op = "switchRestaurant.ok"
                => /\ id \in DOMAIN dbRestaurants
                   /\ currentRestaurant' = dbRestaurants[id]
                   /\ cart' = <<>>
                   /\ lastOrder' = Null
           /\ lastOp'.op \in {"switchRestaurant", "switchRestaurant.failed"}
                => UNCHANGED << currentRestaurant, cart, lastOrder, viewMode >> ]_vars

\* A failed switch has left a restaurant, a filled cart and a receipt in place.
C7_Witness ==
    /\ lastOp.op = "switchRestaurant.failed"
    /\ currentRestaurant # Null
    /\ Len(cart) > 0
    /\ lastOrder # Null

\* C8: when placeOrder succeeds the cart becomes empty, lastOrder is the receipt
\* with the new order's id, the restaurant and the cart lines of the moment
\* placeOrder was called, status PENDING and the computed total, and one
\* order_items row per cart line is written with the line's id, quantity, price.
C8_PlaceOrderSuccess ==
    [][ /\ lastOp'.op = "placeOrder"
            => /\ placeCalls'[lastOp'.k].cart = cart
               /\ placeCalls'[lastOp'.k].restaurant = currentRestaurant
        /\ \A k \in DOMAIN placeCalls :
              (placeCalls[k] # Idle /\ placeCalls'[k] # Idle)
                 => /\ placeCalls'[k].cart = placeCalls[k].cart
                    /\ placeCalls'[k].restaurant = placeCalls[k].restaurant
        /\ lastOp'.op = "placeOrder.success"
            => LET call == placeCalls[lastOp'.k]
                   rows == SubSeq(dbOrderItems', Len(dbOrderItems) + 1, Len(dbOrderItems'))
               IN /\ cart' = <<>>
                  /\ lastOrder'.id = call.orderId
                  /\ \E i \in DOMAIN dbOrders :
                        /\ dbOrders[i].id = lastOrder'.id
                        /\ dbOrders[i].restaurant_id = lastOrder'.restaurantId
                  /\ lastOrder'.restaurantId = call.restaurant.id
                  /\ lastOrder'.items = call.cart
                  /\ lastOrder'.status = PENDING
                  /\ lastOrder'.total = call.totalAmount
                  /\ Len(rows) = Len(call.cart)
                  /\ \A i \in DOMAIN rows :
                        /\ rows[i].order_id = call.orderId
                        /\ rows[i].menu_item_id = call.cart[i].id
                        /\ rows[i].quantity = call.cart[i].quantity
                        /\ rows[i].price = call.cart[i].price ]_vars

\* An order of two lines has gone through: the cart is empty and the receipt is set.
C8_Witness ==
    /\ lastOp.op = "placeOrder.success"
    /\ cart = <<>>
    /\ lastOrder # Null
    /\ Len(lastOrder.items) = 2
    /\ Len(dbOrderItems) = 2

\* C9: when the header insert succeeded and the line-item insert fails, the
\* order row stays (no delete is issued), it has no order_items, the cart and
\* lastOrder are unchanged and isPlacingOrder is false again.
C9_HeaderOnlyOrder ==
    [][ lastOp'.op = "placeOrder.itemsFailed"
        => LET call == placeCalls[lastOp'.k]
           IN /\ dbOrders' = dbOrders
              /\ \E i \in DOMAIN dbOrders' : dbOrders'[i].id = call.orderId
              /\ \A i \in DOMAIN dbOrderItems' : dbOrderItems'[i].order_id # call.orderId
              /\ cart' = cart
              /\ lastOrder' = lastOrder
              /\ isPlacingOrder' = FALSE ]_vars

\* The line-item insert has failed: a header without lines, the cart still full.
C9_Witness ==
    /\ lastOp.op = "placeOrder.itemsFailed"
    /\ Len(dbOrders) = 1
    /\ dbOrderItems = <<>>
    /\ Len(cart) > 0
    /\ lastOrder = Null
    /\ ~isPlacingOrder

LinesTotal(lines) == SumSeq([i \in DOMAIN lines |-> lines[i].price * lines[i].quantity])

ScenarioCart == << LineOf("A", 100 * Unit, 2), LineOf("B", 50 * Unit, 1) >>

\* C10: subtotal is the sum of price x quantity over the cart lines, tax is
\* exactly 5% of it, total_amount is subtotal + tax; the receipt holds the same
\* total and the order row its two-decimal value; for {A: 2 x 100, B: 1 x 50}
\* subtotal is 250, tax 12.5, total 262.5, shown as 262.50.
C10_Totals ==
    /\ \A k \in DOMAIN placeCalls :
          placeCalls[k].pc \in {"createOrder", "createItems"}
             => LET call == placeCalls[k]
                IN /\ call.subtotal = LinesTotal(call.cart)
                   /\ call.tax * 100 = call.subtotal * 5
                   /\ call.totalAmount = call.subtotal + call.tax
                   /\ call.cart = ScenarioCart
                         => /\ call.subtotal = 250 * Unit
                            /\ call.tax * 10 = 125 * Unit
                            /\ call.totalAmount * 10 = 2625 * Unit
                   /\ call.pc = "createItems"
                         => \E i \in DOMAIN dbOrders :
                               /\ dbOrders[i].id = call.orderId
                               /\ dbOrders[i].total_amount = call.totalAmount
    /\ lastOrder # Null
          => /\ lastOrder.total * 100 = LinesTotal(lastOrder.items) * 105
             /\ \E i \in DOMAIN dbOrders :
                   /\ dbOrders[i].id = lastOrder.id
                   /\ dbOrders[i].total_amount = lastOrder.total
             /\ lastOrder.items = ScenarioCart
                   => /\ lastOrder.total * 10 = 2625 * Unit
                      /\ OrderSuccessTotal(lastOrder) = "262.50"
             /\ lastOrder.items = << LineOf("B", 50 * Unit, 1) >>
                   => OrderSuccessTotal(lastOrder) = "52.50"

\* The scenario's order has been placed and its receipt stored.
C10_Witness ==
    /\ lastOrder # Null
    /\ lastOrder.items = ScenarioCart
    /\ OrderSuccessTotal(lastOrder) = "262.50"

\* C3: when the backend write of updateOrderStatus fails, activeOrders after the
\* call equals, as a whole value (every order, every field, the same sequence),
\* activeOrders as it was immediately before the call: the call's snapshot is the
\* list at the call, it does not change while the write is in flight, and the
\* failure step stores exactly that snapshot.
C3_RollbackRestoresSnapshot ==
    [][ /\ lastOp'.op = "updateOrderStatus"
           => /\ updateCalls'[lastOp'.k].previousOrders = activeOrders
              /\ updateCalls[lastOp'.k] = Idle
        /\ \A k \in DOMAIN updateCalls :
              updateCalls[k] # Idle /\ updateCalls'[k] # Idle
                 => updateCalls'[k].previousOrders = updateCalls[k].previousOrders
        /\ lastOp'.op = "updateOrderStatus.failed"
           => /\ updateCalls[lastOp'.k] # Idle
              /\ activeOrders' = updateCalls[lastOp'.k].previousOrders ]_vars

\* A write has failed after a realtime event changed another order meanwhile: the
\* list shows that order as it was before the call, not as the backend has it.
C3_Witness ==
    /\ lastOp.op = "updateOrderStatus.failed"
    /\ rtQueue = <<>>
    /\ \E i \in DOMAIN activeOrders, j \in DOMAIN dbOrders :
          /\ activeOrders[i].id = dbOrders[j].id
          /\ activeOrders[i].status = PENDING
          /\ dbOrders[j].status = PAID

\* C4: a realtime UPDATE event changes only the status of the activeOrders entry
\* whose id is the event's order id: the other fields of that entry, the other
\* entries, the length and the sequence of the list are unchanged, and an event
\* for an id that is not in the list leaves the list unchanged.
C4_RealtimeUpdateFrame ==
    [][ lastOp'.op = "realtime.UPDATE"
           => LET new == Head(rtQueue).new
              IN /\ Len(activeOrders') = Len(activeOrders)
                 /\ \A i \in DOMAIN activeOrders :
                       /\ activeOrders'[i].id = activeOrders[i].id
                       /\ activeOrders'[i].restaurantId = activeOrders[i].restaurantId
                       /\ activeOrders'[i].tableId = activeOrders[i].tableId
                       /\ activeOrders'[i].items = activeOrders[i].items
                       /\ activeOrders'[i].total = activeOrders[i].total
                       /\ activeOrders'[i].status =
                             IF activeOrders[i].id = new.id THEN new.status
                             ELSE activeOrders[i].status
                 /\ (\A i \in DOMAIN activeOrders : activeOrders[i].id # new.id)
                       => activeOrders' = activeOrders ]_vars

\* An event has just been applied to a list of two orders: one shows the event's
\* status, the other has kept its own.
C4_Witness ==
    /\ lastOp.op = "realtime.UPDATE"
    /\ Len(activeOrders) = 2
    /\ \E i, j \in DOMAIN activeOrders :
          /\ activeOrders[i].status = PAID
          /\ activeOrders[j].status = PENDING

\* C5: orders are fetched in pages of 20 with a zero-based page index: a reset
\* asks for page 0 and loadMoreOrders for the page after ordersPage; each fetch
\* adds at most 20 orders to activeOrders; after a fetch hasMoreOrders is false
\* exactly when the last fetched page had fewer than 20 rows; and once
\* hasMoreOrders is false loadMoreOrders issues no request.
C5_Pagination ==
    /\ [](/\ lastPageLen = -1 => hasMoreOrders
          /\ lastPageLen # -1 => (~hasMoreOrders <=> lastPageLen < PageSize)
          /\ \A i \in DOMAIN fetchCalls : fetchCalls[i].page >= 0)
    /\ [][ /\ lastOp'.op = "fetchOrders.ok"
              => LET call == fetchCalls[lastOp'.k]
                 IN /\ lastPageLen' <= PageSize
                    /\ Len(activeOrders') =
                          (IF call.reset THEN 0 ELSE Len(activeOrders)) + lastPageLen'
                    /\ ordersPage' = call.page
                    /\ call.reset => call.page = 0
           /\ lastOp'.op = "loadMoreOrders"
              => /\ hasMoreOrders
                 /\ fetchCalls' = Append(fetchCalls,
                       [reset |-> FALSE, page |-> ordersPage + 1, rid |-> CurrentId])
           /\ lastOp'.op = "effect.setup" /\ CurrentId # NULL
              => fetchCalls' = Append(fetchCalls,
                       [reset |-> TRUE, page |-> 0, rid |-> CurrentId])
           /\ lastOp'.op \in {"loadMoreOrders", "loadMoreOrders.noop"} /\ ~hasMoreOrders
              => fetchCalls' = fetchCalls ]_vars

\* Two pages have been fetched, the second one short, and loadMoreOrders has then
\* been called and has done nothing.
C5_Witness ==
    /\ lastOp.op = "loadMoreOrders.noop"
    /\ ~hasMoreOrders
    /\ ordersPage = 1
    /\ Len(activeOrders) > PageSize
    /\ fetchCalls = <<>>

\* C6 as stated: in every reachable state at most one realtime channel is open
\* and it is the channel of the current restaurant.
C6_ChannelOfCurrentRestaurant ==
    /\ Cardinality(channels) <= 1
    /\ channels \subseteq {CurrentId}

\* C6 as the code has it: in every reachable state at most one realtime channel
\* is open and it is the channel of the restaurant the subscription effect last
\* ran for, which is the current restaurant once the effect has followed a change
\* of currentRestaurant.id; a channel is subscribed only when none is open (the
\* previous one has been removed first), so an event never has two live handlers.
C6_OneChannelOfEffectRestaurant ==
    /\ [](/\ Cardinality(channels) <= 1
          /\ channels \subseteq {effectRid}
          /\ effectPc = "setup" => channels = {}
          /\ effectPc = "idle" /\ effectRid = CurrentId /\ CurrentId # NULL
                => channels = {CurrentId})
    /\ [][ channels' # channels /\ channels' # {}
              => /\ channels = {}
                 /\ channels' = {CurrentId} ]_vars

\* The restaurant has changed from R1 to R2 and the effect has followed: the only
\* channel is R2's.
C6_Witness ==
    /\ CurrentId = "R2"
    /\ effectRid = "R2"
    /\ channels = {"R2"}
    /\ lastOp.op = "effect.setup"

\* C11: addToCart(item) leaves the cart unchanged when item.inStock is false;
\* otherwise, when a line with item.id exists, only that line's quantity grows,
\* by exactly 1, and no line is added; when none exists, one line of quantity 1
\* is appended at the end; every other line keeps its quantity and position.
C11_AddToCart ==
    [][ lastOp'.op = "addToCart"
           => LET item == lastOp'.item
              IN IF item.inStock = FALSE
                 THEN cart' = cart
                 ELSE IF \E i \in DOMAIN cart : cart[i].id = item.id
                 THEN /\ Len(cart') = Len(cart)
                      /\ \A i \in DOMAIN cart :
                            /\ cart'[i].id = cart[i].id
                            /\ cart'[i].price = cart[i].price
                            /\ cart'[i].quantity =
                                  IF cart[i].id = item.id THEN cart[i].quantity + 1
                                  ELSE cart[i].quantity
                 ELSE /\ Len(cart') = Len(cart) + 1
                      /\ SubSeq(cart', 1, Len(cart)) = cart
                      /\ cart'[Len(cart')].id = item.id
                      /\ cart'[Len(cart')].price = item.price
                      /\ cart'[Len(cart')].quantity = 1 ]_vars

\* An item already in a cart of two lines has just been added again: its line,
\* the first, now counts 2 and the other line is as it was.
C11_Witness ==
    /\ lastOp.op = "addToCart"
    /\ lastOp.item.id = "A"
    /\ Len(cart) = 2
    /\ cart[1].id = "A" /\ cart[1].quantity = 2
    /\ cart[2].id = "B" /\ cart[2].quantity = 1

\* C12 as stated: when an identifier (restaurant id or table) is both in the
\* search query and in the query embedded in the hash, parseURLParams returns the
\* search query's value; the hash's value is used only when the search query
\* does not carry the identifier.
C12_SearchTakesPrecedence ==
    initTask.pc \in {"rt_select", "rt_insert", "switch", "cont"}
       => /\ initTask.rid = IF location.search.rid # NULL THEN location.search.rid
                            ELSE location.hash.rid
          /\ initTask.tableNumber = IF location.search.table # NULL
                                    THEN location.search.table
                                    ELSE location.hash.table

\* C13 as stated: a guest who loads ?rid=R1&tableId=T1&tableNo=5 (R1 exists and
\* is fetched) ends initialization in the customer ordering view, viewMode APP
\* and isAdmin false, with currentRestaurant R1, tableId T1, table display
\* number "5" and an empty cart.
C13_CanonicalTableSession ==
    location = CanonicalLocation /\ initTask.pc = "done" /\ error = NULL
       => /\ viewMode = "APP"
          /\ ~isAdmin
          /\ currentRestaurant = dbRestaurants["R1"]
          /\ tableId = "T1"
          /\ tableNumber = "5"
          /\ cart = <<>>

\* C14 as stated: a guest who loads ?rid=R1 with no table identifier never
\* reaches the customer view of R1 (viewMode APP, not admin, children rendered).
C14_NoMenuWithoutTable ==
    location = RidOnlyLocation
       => ~(viewMode = "APP" /\ ~isAdmin /\ UIReady /\ currentRestaurant # Null)

\* C19: replaceMenu(items, rid) with no target id and no current restaurant does
\* nothing; otherwise it works on the target id, or on the current restaurant
\* when none is given.  Its delete removes every menu row of that restaurant, or
\* on failure changes nothing and ends the call (no insert follows); its insert
\* adds the given items as rows of that restaurant, or on failure adds nothing
\* (the rows deleted stay deleted).  No step of it changes a row of another
\* restaurant.
C19_ReplaceMenu ==
    [][/\ lastOp'.op = "replaceMenu.noop" =>
            /\ lastOp'.target = NULL /\ currentRestaurant = Null
            /\ dbMenu' = dbMenu /\ menuWrites' = menuWrites
       /\ lastOp'.op = "replaceMenu" /\ Len(menuWrites') > Len(menuWrites) =>
            /\ dbMenu' = dbMenu
            /\ menuWrites'[Len(menuWrites')].pc = "delete"
            /\ menuWrites'[Len(menuWrites')].rid # NULL
            /\ menuWrites'[Len(menuWrites')].rid =
                  IF lastOp'.target # NULL THEN lastOp'.target ELSE currentRestaurant.id
       /\ \A k \in DOMAIN menuWrites :
            menuWrites[k].op = "replaceMenu" /\ menuWrites'[k] # menuWrites[k] =>
               LET w == menuWrites[k]
                   n == Len(dbMenu)
               IN /\ SelectSeq(dbMenu', LAMBDA r : r.restaurant_id # w.rid)
                        = SelectSeq(dbMenu, LAMBDA r : r.restaurant_id # w.rid)
                  /\ w.pc \in {"delete", "insert"}
                  /\ w.pc = "delete" =>
                        \/ menuWrites'[k].pc = "insert" /\ MenuRowsOf(dbMenu', w.rid) = <<>>
                        \/ menuWrites'[k].pc = "done" /\ dbMenu' = dbMenu
                  /\ w.pc = "insert" =>
                        /\ menuWrites'[k].pc = "done"
                        /\ \/ dbMenu' = dbMenu
                           \/ /\ Len(dbMenu') = n + Len(w.items)
                              /\ SubSeq(dbMenu', 1, n) = dbMenu
                              /\ \A j \in DOMAIN w.items :
                                    /\ dbMenu'[n + j].restaurant_id = w.rid
                                    /\ dbMenu'[n + j].name = w.items[j].name
                                    /\ dbMenu'[n + j].in_stock = w.items[j].inStock
      ]_vars

\* A replaceMenu for R1 has deleted R1's rows and inserted the new list; the row
\* of R2 is still stored.
C19_Witness ==
    /\ lastOp.op = "replaceMenu.insert.ok"
    /\ \E i \in DOMAIN dbMenu : dbMenu[i].restaurant_id = "R1" /\ dbMenu[i].name = "rice"
    /\ \A i \in DOMAIN dbMenu : dbMenu[i].id # "M1"
    /\ \E i \in DOMAIN dbMenu : dbMenu[i] = StoredMenu[3]

\* C20: deleteMenuItem(id) never removes a row: its response leaves every row in
\* place and changes at most the deleted_at of the row with that id, to a set
\* value.  After a successful fetchMenu neither menuItems nor the snapshot stored
\* for that restaurant holds an item whose row has deleted_at set.
C20_SoftDelete ==
    [][/\ \A k \in DOMAIN menuWrites :
            menuWrites[k].op = "deleteMenuItem" /\ menuWrites'[k] # menuWrites[k] =>
               /\ Len(dbMenu') = Len(dbMenu)
               /\ \A i \in DOMAIN dbMenu :
                     \/ dbMenu'[i] = dbMenu[i]
                     \/ /\ dbMenu[i].id = menuWrites[k].id
                        /\ dbMenu'[i].deleted_at # NULL
                        /\ dbMenu'[i] = [dbMenu[i] EXCEPT !.deleted_at = dbMenu'[i].deleted_at]
       /\ lastOp'.op = "fetchMenu.ok" /\ menuCalls' # menuCalls =>
            /\ menuCache'[lastOp'.rid] # Null
            /\ \A i \in DOMAIN dbMenu' :
                  dbMenu'[i].deleted_at # NULL =>
                     /\ \A j \in DOMAIN menuItems' : menuItems'[j].id # dbMenu'[i].id
                     /\ \A j \in DOMAIN menuCache'[lastOp'.rid].items :
                           menuCache'[lastOp'.rid].items[j].id # dbMenu'[i].id
      ]_vars

\* An item was soft-deleted from the dashboard, its row is still stored with the
\* marker set, and the fetchMenu that followed shows and stores the menu
\* without it.
C20_Witness ==
    /\ lastOp.op = "fetchMenu.ok"
    /\ lastOp.rid = "R1"
    /\ \E k \in DOMAIN menuWrites :
          menuWrites[k] = [op |-> "deleteMenuItem", pc |-> "done", id |-> "M1"]
    /\ \E i \in DOMAIN dbMenu : dbMenu[i].id = "M1" /\ dbMenu[i].deleted_at = DeletedAt
    /\ "M1" \notin ShownIds
    /\ menuCache["R1"] = [items |-> menuItems]

\* C21 on the menu cache (categories are derived from the items and are not
\* modelled): a cache entry of restaurant R holds only items of R; when the
\* effect loads the menu of a restaurant that has a cache entry, that snapshot
\* is shown at once, before any response arrives; a successful response leaves
\* menuItems and the cache entry equal to the response; and no step of a
\* fetch changes the backend menu.
C21_CacheShownBeforeNetwork ==
    [][ /\ \A r \in DOMAIN menuCache' :
              menuCache'[r] # Null =>
                 \A j \in DOMAIN menuCache'[r].items : menuCache'[r].items[j].restaurantId = r
        /\ (lastOp'.op = "effect.setup" /\ CurrentId # NULL /\ menuCache[CurrentId] # Null)
              => menuItems' = menuCache[CurrentId].items
        /\ lastOp'.op = "fetchMenu.ok"
              => /\ menuItems' = transformMenu(menuCalls[lastOp'.k].data.rows)
                 /\ menuCache'[lastOp'.rid] = [items |-> menuItems']
        /\ lastOp'.op \in {"effect.setup", "getMenu", "fetchMenu.ok", "fetchMenu.failed"}
              => dbMenu' = dbMenu ]_vars

\* C26 on concurrent menu fetches: when the last request in flight is answered
\* and a later-issued request of the same restaurant has already been answered,
\* menuItems and the cache entry hold that later answer; and while the menu of
\* the current restaurant is shown, the answer to a request for another
\* restaurant leaves menuItems alone.
C26_LatestFetchWins ==
    [][ lastOp'.op = "fetchMenu.ok" =>
          LET call == menuCalls[lastOp'.k]
          IN /\ (Len(menuCalls) = 1 /\ call.newer # Null)
                   => /\ menuItems' = call.newer.items
                      /\ menuCache'[call.rid] = call.newer
             /\ ( /\ CurrentId # NULL
                  /\ call.rid # CurrentId
                  /\ menuItems # <<>>
                  /\ \A j \in DOMAIN menuItems : menuItems[j].restaurantId = CurrentId )
                   => menuItems' = menuItems ]_vars

\* C22 on the order list: no step leaves two entries of activeOrders with the
\* same id, and when the details of a newly inserted order arrive the order is
\* at the head of the list and appears there once.
C22_NewOrderOnce ==
    [][ /\ \A i, j \in DOMAIN activeOrders' :
              activeOrders'[i].id = activeOrders'[j].id => i = j
        /\ (lastOp'.op = "getOrderById.ok" /\ lastOp'.kind = "INSERT")
              => /\ activeOrders'[1].id = lastOp'.id
                 /\ Cardinality({ i \in DOMAIN activeOrders' :
                                     activeOrders'[i].id = lastOp'.id }) = 1 ]_vars

OnlyOrdersOf(orders, rid) == \A i \in DOMAIN orders : orders[i].restaurantId = rid

\* C25 on a restaurant switch: once the effect has run for the current
\* restaurant, no fetch of an order page is in flight and activeOrders holds
\* only orders of that restaurant, every later step that keeps the restaurant
\* leaves activeOrders with orders of that restaurant only.
C25_OnlyCurrentOrders ==
    [][ ( /\ CurrentId # NULL
          /\ CurrentId' = CurrentId
          /\ effectRid = CurrentId
          /\ effectPc = "idle"
          /\ fetchCalls = <<>>
          /\ activeOrders # <<>>
          /\ OnlyOrdersOf(activeOrders, CurrentId) )
        => OnlyOrdersOf(activeOrders', CurrentId) ]_vars

DbStatusOf(orderId) ==
    (CHOOSE o \in { dbOrders[i] : i \in DOMAIN dbOrders } : o.id = orderId).status

\* C23 on status writes: when no status write, no page of orders and no order
\* detail is awaited and every realtime event has been delivered, each entry of
\* activeOrders shows the status its row has in the backend.
C23_StatusesAgree ==
    ( /\ \A k \in DOMAIN updateCalls : updateCalls[k] = Idle
      /\ fetchCalls = <<>>
      /\ detailCalls = <<>>
      /\ rtQueue = <<>> )
    => \A i \in DOMAIN activeOrders :
          activeOrders[i].status = DbStatusOf(activeOrders[i].id)

\* C24 on the busy marker: the id of every order with a status write in flight
\* is in isUpdatingOrder, also when two writes for the same order overlap; an
\* id leaves the set only on the step that handles a write's response; and an
\* optimistic status is put back only on the step that handles a failure.
C24_BusyUntilResolved ==
    [][ /\ \A k \in DOMAIN updateCalls' :
              updateCalls'[k] # Idle => updateCalls'[k].orderId \in isUpdatingOrder'
        /\ isUpdatingOrder' # isUpdatingOrder
              => lastOp'.op \in {"updateOrderStatus", "updateOrderStatus.ok",
                                 "updateOrderStatus.failed"}
        /\ lastOp'.op = "updateOrderStatus.failed"
              => activeOrders' = updateCalls[lastOp'.k].previousOrders ]_vars

ShownStatus(orders, orderId) ==
    (CHOOSE o \in { orders[i] : i \in DOMAIN orders } : o.id = orderId).status

\* C29 on the order life cycle: every status write the dashboard issues is for
\* an order on screen and either takes the next step of PENDING, PREPARING,
\* READY, SERVED, PAID from the status shown, or cancels an order shown as
\* PENDING or PREPARING.
C29_LifecycleWrites ==
    [][ lastOp'.op = "updateOrderStatus" =>
          LET call == updateCalls'[lastOp'.k]
          IN /\ \E i \in DOMAIN activeOrders : activeOrders[i].id = call.orderId
             /\ LET shown == ShownStatus(activeOrders, call.orderId)
                IN \/ call.status = NextStatus(shown)
                   \/ call.status = CANCELLED /\ Cancellable(shown) ]_vars

\* C27 on sign-out: while the page runs without a session, profile is null and
\* isAdmin is false, whatever profile fetch started before the session ended.
C27_SignedOutStaysOut ==
    (~unloaded /\ session = NULL) => (profile = Null /\ ~isAdmin)

\* C28 on table sessions: on a page whose URL names a restaurant and a table,
\* a step from a state that shows the URL's restaurant to a state where initApp
\* and every profile load have finished, no error is set, the profile is loaded
\* and the table id is resolved, ends in a customer session of the URL's
\* restaurant.
C28_TableSessionIsCustomer ==
    [][ ( /\ URLRid(location) # NULL
          /\ URLTable(location) # NULL
          /\ CurrentId = URLRid(location)
          /\ AuthQuiet'
          /\ ~unloaded'
          /\ error' = NULL
          /\ profile' # Null
          /\ tableId' # NULL )
        => (~isAdmin' /\ CurrentId' = URLRid(location)) ]_vars

\* C30 on the QR round trip: when the code on screen was produced by the
\* resolution of the text now in the input, the scanned URL gives the
\* dashboard's restaurant, the text as typed and, resolved by the guest, the
\* table id that the URL carries.
C30_QRRoundTrip ==
    [][ ( /\ lastOp'.op = "scan"
          /\ qrCalls = << [pc |-> "resolved", number |-> qrTable] >> )
        => /\ lastOp'.rid = << currentRestaurant.id >>
           /\ lastOp'.tableNumber = qrTable
           /\ lastOp'.embedded = << qrTableId >>
           /\ lastOp'.tableId = qrTableId ]_vars

=============================================================================
